---- MODULE Spec2Model ----
(***************************************************************************)
(* Reading-position / document-layout / playback-synchronisation core of   *)
(* lue: the (chapter, paragraph, sentence) navigation model, the wrapped   *)
(* line grid with its position<->line maps, the scroll controller, the     *)
(* command loop of Lue.run, the Textual actions of LueApp and the          *)
(* audio-restart sequences.                                                *)
(*                                                                         *)
(* Conventions.  Positions and line numbers are 0-based as in the Python   *)
(* source; TLA+ sequences are 1-based, so chapters[c + 1][p + 1] is the    *)
(* source's chapters[c][p].  A paragraph is held as the sequence of its    *)
(* sentences and a sentence as the sequence of the lengths of its words;   *)
(* the paragraph string is the sentences joined by single blanks.          *)
(* scroll_offset is a float in the source; it is held in fixed point,      *)
(* Scale units per line.                                                   *)
(***************************************************************************)
EXTENDS Integers, Sequences, FiniteSets, TLC

VARIABLES
    chapters,                \* reader.chapters (immutable after load)
    recording,               \* history: whether this behaviour keeps the
                             \* histories of commands, navigations and playback
    audio_position,          \* (chapter_idx, paragraph_idx, sentence_idx)
    display_position,        \* (ui_chapter_idx, ui_paragraph_idx, ui_sentence_idx)
    document_lines,          \* reader.document_lines
    position_to_line,        \* reader.position_to_line
    line_to_position,        \* reader.line_to_position
    paragraph_line_ranges,   \* reader.paragraph_line_ranges
    term_width, term_height, \* what os.get_terminal_size() reports now
    scroll_offset,           \* reader.scroll_offset, in 1/Scale lines
    target_scroll_offset,    \* reader.target_scroll_offset, in 1/Scale lines
    auto_scroll_enabled,
    first_sentence_jump,
    resize_anchor,           \* None or (top_sentence, fraction_in_view)
    resize_scheduled,
    smooth_scroll_task,      \* the _animate_scroll task: state and tick count
    orphaned_animations,     \* _animate_scroll tasks alive but no longer referenced
    is_paused,
    running,
    run_state,               \* where Lue.run is: "init", "refused", "loop", then
                             \* the step of Lue._shutdown it is at, "done" at
                             \* last; "raised" when an exception has ended it
    services_pc,             \* where LueApp._initialize_services is
    tts_initialized,         \* LueApp._tts_initialized
    command,                 \* reader.command: the single posted-command slot
    command_received_event,  \* asyncio.Event set by _post_command
    restart_tasks,           \* the restart coroutines alive, oldest first
    audio_restart_lock,      \* reader.audio_restart_lock is held
    audio_playing,           \* audio engine: a playback pipeline is running
    play_position,           \* audio engine: the sentence being played
    audio_raised,            \* audio engine: its last call raised an exception
    overwritten,             \* history: the unconsumed command a post replaced
    nav_pending,             \* history: position of a navigation not yet played
    burst,                   \* history: navigations and playback starts of a burst
    last_play,               \* history: last restart playback, expected position
    stale_view,              \* history: terminal resized, layout not rebuilt since
    fn_in, fn_out,           \* harness for the pure functions: call and result
    scroll_in, scroll_out,   \* the same for the page scroll: call and new offset
    split_in, split_out,     \* the same for the sentence splitter
    background_task,         \* reader.background_task: "none", "running", "done"
    shutdown_log             \* history: what the exit handler and Lue._shutdown
                             \* have done, and the exceptions that have ended
                             \* Lue.run, in order

docVars == << chapters, recording >>
posVars == << audio_position, display_position >>
layoutVars == << document_lines, position_to_line, line_to_position,
                paragraph_line_ranges >>
termVars == << term_width, term_height >>
scrollVars == << scroll_offset, target_scroll_offset, smooth_scroll_task,
                orphaned_animations >>
modeVars == << auto_scroll_enabled, first_sentence_jump >>
resizeVars == << resize_anchor, resize_scheduled, stale_view >>
flagVars == << is_paused, running, run_state, services_pc, tts_initialized >>
loopVars == << command, command_received_event, overwritten >>
restartVars == << restart_tasks, audio_restart_lock >>
audioVars == << audio_playing, play_position, audio_raised >>
histVars == << nav_pending, burst, last_play >>
fnVars == << fn_in, fn_out, scroll_in, scroll_out, split_in, split_out >>
shutdownVars == << background_task, shutdown_log >>

vars == << docVars, posVars, layoutVars, termVars, scrollVars, modeVars,
           resizeVars, flagVars, loopVars, restartVars, audioVars, histVars,
           fnVars, shutdownVars >>

-----------------------------------------------------------------------------
(* Bounds of the model *)

MaxTasks == 3        \* restart tasks alive at once
MaxTextLen == 5        \* characters of a text given to the sentence splitter
MaxNavSentences == 3 \* sentences per paragraph of the navigation documents

(* Fixed-point resolution of the float offsets *)
Scale == 100

Max(a, b) == IF a >= b THEN a ELSE b
Min(a, b) == IF a <= b THEN a ELSE b
Abs(a) == IF a >= 0 THEN a ELSE -a

None == << >>
NoPos == <<-1, -1, -1>>

\* A posted command: its name and its data; reader.command = None is NoCommand
Command(name, data) == [name |-> name, data |-> data]
NoCommand == Command("none", None)

\* A call of a navigation function: which one and its arguments
Call(op, pos, mode, wrap) == [op |-> op, pos |-> pos, mode |-> mode, wrap |-> wrap]
NoCall == Call("none", <<0, 0, 0>>, "sentence", TRUE)

\* A call of the page scroll: direction (-1 up, 1 down), the offset before,
\* the number of lines of the grid and the terminal height
ScrollCall(direction, offset, total_lines, height) ==
    [direction |-> direction, offset |-> offset, total_lines |-> total_lines,
     height |-> height]
NoScrollCall == ScrollCall(0, 0, 0, 0)

\* A call of the sentence splitter on the text of a paragraph
SplitCall(paragraph) == [op |-> "split", paragraph |-> paragraph]
NoSplitCall == [op |-> "none", paragraph |-> << >>]

-----------------------------------------------------------------------------
(* Documents *)

\* Three chapters whose wrapping differs at the two widths: 18 lines at
\* width 30, 17 lines at width 40.  At width 30 the first paragraph fills
\* both of its lines.
DocLong ==
    << << << <<14, 15>>, <<28>>, <<1>> >>,
          << <<25, 25, 25>> >> >>,
       << << <<25, 25>>, <<12, 12, 12>> >> >>,
       << << <<20, 20, 20, 20>> >>,
          << <<5>> >> >> >>

\* Chapter 0 has one paragraph of 3 sentences, chapter 1 one paragraph of 1.
DocTwoChapters ==
    << << << <<3>>, <<3>>, <<3>> >> >>,
       << << <<3>> >> >> >>

\* One chapter: a short paragraph, a paragraph whose first sentence fills 25
\* lines of a 50-column terminal and is followed by two one-letter
\* sentences on one line, and a paragraph of two lines.
DocTall ==
    << << << <<5>> >>,
          << [i \in 1..25 |-> 40], <<1>>, <<1>> >>,
          << <<40, 40>> >> >> >>

Docs == {DocLong, DocTwoChapters}

\* What the loaders return for a file without content: no chapter, or one
\* chapter without paragraphs
EmptyDocs == { << >>, << << >> >> }

\* Documents for the navigation functions: every shape of one or two
\* chapters of one or two paragraphs of 1..MaxNavSentences one-word sentences.
NavParagraphs == { [i \in 1..n |-> <<1>>] : n \in 1..MaxNavSentences }
NavChapters == { <<a>> : a \in NavParagraphs } \cup
               { <<a, b>> : a \in NavParagraphs, b \in {<<<<1>>>>, <<<<1>>, <<1>>>>} }
NavDocs == { <<x>> : x \in NavChapters } \cup
           { <<x, y>> : x \in NavChapters, y \in {<< <<<<1>>>> >>, << <<<<1>>, <<1>>>>, <<<<1>>>> >>} }

\* Paragraphs and documents for the layout builder: words of up to 30
\* cells, one or two paragraphs, in one chapter or two
LayoutParagraphs ==
    { << <<14, 15>>, <<28>>, <<1>> >>, << <<25, 25, 25>> >>, << <<5>> >>,
      << <<12, 12, 12>>, <<20, 20>> >>, << <<30>>, <<1>> >>, << <<9, 9>>, <<9>>, <<9>> >> }
LayoutDocs ==
    { << <<a>> >> : a \in LayoutParagraphs } \cup
    { << <<a, b>> >> : a \in LayoutParagraphs, b \in LayoutParagraphs } \cup
    { << <<a>>, <<b>> >> : a \in LayoutParagraphs, b \in LayoutParagraphs }

TermWidths == {40, 50}
TermHeights == {10, 12}

-----------------------------------------------------------------------------
(* Sentence counts and the set of valid positions *)

\* content_parser.split_into_sentences: never empty, falls back to the whole
\* paragraph as one sentence
split_into_sentences(paragraph) ==
    IF paragraph = << >> THEN << << >> >> ELSE paragraph

NumChapters == Len(chapters)
NumParagraphs(c) == Len(chapters[c + 1])
NumSentences(c, p) == Len(split_into_sentences(chapters[c + 1][p + 1]))

Positions ==
    UNION { UNION { { <<c, p, s>> : s \in 0..(NumSentences(c, p) - 1) }
                    : p \in 0..(NumParagraphs(c) - 1) }
            : c \in 0..(NumChapters - 1) }

ValidPosition(pos) == pos \in Positions

LastPosition ==
    LET c == NumChapters - 1
        p == NumParagraphs(c) - 1
    IN  <<c, p, NumSentences(c, p) - 1>>

-----------------------------------------------------------------------------
(* Sentence Splitter: content_parser.split_into_sentences on the text of a *)
(* paragraph, a sequence of characters                                      *)

UpperLetters == << "A", "B", "C", "D", "E", "F", "G", "H", "I", "J", "K",
                   "L", "M", "N", "O", "P", "Q", "R", "S", "T", "U", "V",
                   "W", "X", "Y", "Z" >>
LowerLetters == << "a", "b", "c", "d", "e", "f", "g", "h", "i", "j", "k",
                   "l", "m", "n", "o", "p", "q", "r", "s", "t", "u", "v",
                   "w", "x", "y", "z" >>

Uppers == { UpperLetters[i] : i \in 1..Len(UpperLetters) }
Lowers == { LowerLetters[i] : i \in 1..Len(LowerLetters) }

\* re.IGNORECASE: a letter compares as its lower-case form
lower(ch) ==
    IF ch \in Uppers
    THEN LowerLetters[CHOOSE i \in 1..Len(UpperLetters) : UpperLetters[i] = ch]
    ELSE ch

\* \w (letters; the texts have no digit and no underscore) and \s
IsWordChar(ch) == ch \in Uppers \cup Lowers
IsSpace(ch) == ch \in {" ", "\t", "\n"}

\* \b before the word character at index i
WordBoundaryBefore(text, i) == i = 1 \/ ~IsWordChar(text[i - 1])

\* the abbreviations of the list, in lower case
abbreviations ==
    { <<"m", "r">>, <<"m", "r", "s">>, <<"m", "s">>, <<"d", "r">>,
      <<"p", "r", "o", "f">>, <<"r", "e", "v">>, <<"h", "o", "n">>,
      <<"j", "r">>, <<"s", "r">>, <<"c", "p", "l">>, <<"s", "g", "t">>,
      <<"g", "e", "n">>, <<"c", "o", "l">>, <<"c", "a", "p", "t">>,
      <<"l", "t">>, <<"p", "v", "t">>, <<"v", "s">>, <<"v", "i", "z">>,
      <<"e", "t", "c">>, <<"e", "g">>, <<"i", "e">>, <<"c", "o">>,
      <<"i", "n", "c">>, <<"l", "t", "d">>, <<"c", "o", "r", "p">>,
      <<"s", "t">>, <<"a", "v", "e">>, <<"b", "l", "v", "d">> }

\* placeholder = "<LUE_PERIOD>": it stands here as one character, which like
\* its first and last character "<" and ">" is neither a word character nor
\* a sentence end
placeholder == "<LUE_PERIOD>"

\* abbrev_pattern matches up to the period at index j: an abbreviation of
\* the list, whatever its case, begins at a word boundary and ends before j
AbbreviationPeriod(text, j) ==
    /\ text[j] = "."
    /\ \E a \in abbreviations :
           LET i == j - Len(a)
           IN  /\ i >= 1
               /\ \A k \in 1..Len(a) : lower(text[i + k - 1]) = a[k]
               /\ WordBoundaryBefore(text, i)

\* initial_pattern matches up to the period at index j: one capital letter
\* at a word boundary before it, whitespace and a capital letter after it
InitialPeriod(text, j) ==
    /\ text[j] = "."
    /\ j >= 2
    /\ text[j - 1] \in Uppers
    /\ WordBoundaryBefore(text, j - 1)
    /\ j + 2 <= Len(text)
    /\ IsSpace(text[j + 1])
    /\ text[j + 2] \in Uppers

\* step 1: re.sub(abbrev_pattern, r"\1" + placeholder, paragraph, IGNORECASE)
protect_abbreviations(text) ==
    [j \in 1..Len(text) |->
        IF AbbreviationPeriod(text, j) THEN placeholder ELSE text[j]]

\* Variant of protect_initials: the periods of initials are left as they are
protect_initials_off(text) ==
    text

\* step 2: re.sub(initial_pattern, r"\1" + placeholder, paragraph)
protect_initials(text) ==
    [j \in 1..Len(text) |->
        IF InitialPeriod(text, j) THEN placeholder ELSE text[j]]

\* index of the first character at or after i that is not whitespace
RECURSIVE SkipSpace(_, _)
SkipSpace(text, i) ==
    IF i <= Len(text) /\ IsSpace(text[i]) THEN SkipSpace(text, i + 1) ELSE i

\* step 3: re.split(r'(?<=[.!?])\s+', paragraph) from index i on, with the
\* piece begun so far: a run of whitespace right after ".", "!" or "?" ends
\* the piece and is dropped
RECURSIVE SplitFrom(_, _, _)
SplitFrom(text, i, piece) ==
    IF i > Len(text) THEN << piece >>
    ELSE IF IsSpace(text[i]) /\ i > 1 /\ text[i - 1] \in {".", "!", "?"}
         THEN << piece >> \o SplitFrom(text, SkipSpace(text, i), << >>)
         ELSE SplitFrom(text, i + 1, Append(piece, text[i]))

\* step 4: sentence.replace(placeholder, ".")
restore(sentence) ==
    [j \in 1..Len(sentence) |->
        IF sentence[j] = placeholder THEN "." ELSE sentence[j]]

\* steps 1 to 4: the non-empty pieces, restored
restored_sentences(paragraph) ==
    LET protected == protect_initials(protect_abbreviations(paragraph))
        sentences == SplitFrom(protected, 1, << >>)
        kept == SelectSeq(sentences, LAMBDA sentence : sentence # << >>)
    IN  [k \in 1..Len(kept) |-> restore(kept[k])]

\* Variant of split_paragraph_text: the sentences found, without the
\* fall-back to the whole paragraph
split_paragraph_text_no_fallback(paragraph) ==
    restored_sentences(paragraph)

\* content_parser.split_into_sentences(paragraph): the sentences found, or
\* the paragraph as the only sentence when none was found (then no period
\* has been replaced: the paragraph is the empty string)
split_paragraph_text(paragraph) ==
    IF restored_sentences(paragraph) # << >> THEN restored_sentences(paragraph)
    ELSE << protect_initials(protect_abbreviations(paragraph)) >>

-----------------------------------------------------------------------------
(* Position/Navigation model: Lue._advance_position, Lue._rewind_position *)

RECURSIVE AdvanceLoop(_, _, _, _)
AdvanceLoop(c, p, s, mode) ==
    IF c < NumChapters
    THEN IF p < NumParagraphs(c)
         THEN IF s < NumSentences(c, p)
              THEN <<c, p, IF mode = "paragraph" THEN 0 ELSE s>>
              ELSE AdvanceLoop(c, p + 1, 0, mode)
         ELSE AdvanceLoop(c + 1, 0, 0, mode)
    ELSE NoPos

\* Variant of advance_position: the search does not go on into the next
\* chapter
advance_position_in_chapter(current_pos, mode, wrap) ==
    LET c == current_pos[1]
        p == current_pos[2]
        s == current_pos[3]
        found == IF mode = "paragraph"
                 THEN AdvanceLoop(c, p + 1, 0, mode)
                 ELSE AdvanceLoop(c, p, s + 1, mode)
    IN  IF found # NoPos /\ found[1] = c THEN found
        ELSE IF wrap THEN <<0, 0, 0>> ELSE None

\* Variant of advance_position: at the end of the document the wrap flag is
\* not read and the first position is returned
advance_position_always_wraps(current_pos, mode, wrap) ==
    LET c == current_pos[1]
        p == current_pos[2]
        s == current_pos[3]
        found == IF mode = "paragraph"
                 THEN AdvanceLoop(c, p + 1, 0, mode)
                 ELSE AdvanceLoop(c, p, s + 1, mode)
    IN  IF found # NoPos THEN found ELSE <<0, 0, 0>>

\* Variant of advance_position: paragraph mode carries the sentence index
\* of the input into the next paragraph instead of starting at sentence 0
advance_position_keeps_sentence(current_pos, mode, wrap) ==
    LET c == current_pos[1]
        p == current_pos[2]
        s == current_pos[3]
        found == IF mode = "paragraph"
                 THEN AdvanceLoop(c, p + 1, s, "sentence")
                 ELSE AdvanceLoop(c, p, s + 1, mode)
    IN  IF found # NoPos THEN found
        ELSE IF wrap THEN <<0, 0, 0>> ELSE None

advance_position(current_pos, mode, wrap) ==
    LET c == current_pos[1]
        p == current_pos[2]
        s == current_pos[3]
        found == IF mode = "paragraph"
                 THEN AdvanceLoop(c, p + 1, 0, mode)
                 ELSE AdvanceLoop(c, p, s + 1, mode)
    IN  IF found # NoPos THEN found
        ELSE IF wrap THEN <<0, 0, 0>> ELSE None

RECURSIVE RewindLoop(_, _, _, _)
RewindLoop(c, p, s, mode) ==
    IF c >= 0
    THEN IF p >= 0
         THEN IF s >= 0
              THEN <<c, p, IF mode = "paragraph" THEN 0 ELSE s>>
              ELSE IF p - 1 >= 0
                   THEN RewindLoop(c, p - 1, NumSentences(c, p - 1) - 1, mode)
                   ELSE IF c - 1 >= 0
                        THEN RewindLoop(c - 1, NumParagraphs(c - 1) - 1,
                                 NumSentences(c - 1, NumParagraphs(c - 1) - 1) - 1, mode)
                        ELSE NoPos
         ELSE IF c - 1 >= 0
              THEN RewindLoop(c - 1, NumParagraphs(c - 1) - 1,
                       NumSentences(c - 1, NumParagraphs(c - 1) - 1) - 1, mode)
              ELSE NoPos
    ELSE NoPos

\* Variant of rewind_position: past the beginning, the decremented triple is
\* returned as it is instead of the last position
rewind_position_no_wrap(current_pos, mode) ==
    LET c == current_pos[1]
        p == current_pos[2]
        s == current_pos[3]
        found == IF mode = "paragraph"
                 THEN RewindLoop(c, p - 1, 0, mode)
                 ELSE RewindLoop(c, p, s - 1, mode)
    IN  IF found # NoPos THEN found
        ELSE IF mode = "paragraph" THEN <<c, p - 1, 0>> ELSE <<c, p, s - 1>>

\* Variant of rewind_position: stepping back into the previous paragraph
\* lands on its sentence 0 instead of its last sentence
rewind_position_paragraph_start(current_pos, mode) ==
    LET c == current_pos[1]
        p == current_pos[2]
        s == current_pos[3]
        found == IF mode = "paragraph"
                 THEN RewindLoop(c, p - 1, 0, mode)
                 ELSE RewindLoop(c, p, s - 1, mode)
    IN  IF found = NoPos THEN LastPosition
        ELSE IF <<found[1], found[2]>> # <<c, p>> THEN <<found[1], found[2], 0>>
        ELSE found

\* Variant of rewind_position: past the beginning it wraps to sentence 0 of
\* the last paragraph instead of its last sentence
rewind_position_wraps_to_sentence_0(current_pos, mode) ==
    LET c == current_pos[1]
        p == current_pos[2]
        s == current_pos[3]
        found == IF mode = "paragraph"
                 THEN RewindLoop(c, p - 1, 0, mode)
                 ELSE RewindLoop(c, p, s - 1, mode)
    IN  IF found # NoPos THEN found
        ELSE <<LastPosition[1], LastPosition[2], 0>>

rewind_position(current_pos, mode) ==
    LET c == current_pos[1]
        p == current_pos[2]
        s == current_pos[3]
        found == IF mode = "paragraph"
                 THEN RewindLoop(c, p - 1, 0, mode)
                 ELSE RewindLoop(c, p, s - 1, mode)
    IN  IF found # NoPos THEN found ELSE LastPosition

\* Lue._rewind_position raises IndexError: with nothing before current_pos in
\* its chapter it reads the last paragraph of the chapter before, or after the
\* loop of the last chapter, and that chapter (or the chapter list) is empty
rewind_raises(current_pos, mode) ==
    LET c == current_pos[1]
        p == current_pos[2]
        s == current_pos[3]
        before_in_chapter == IF mode = "paragraph" THEN p - 1 >= 0
                             ELSE s - 1 >= 0 \/ p - 1 >= 0
    IN  /\ ~before_in_chapter
        /\ IF c - 1 >= 0 THEN NumParagraphs(c - 1) = 0
           ELSE NumChapters = 0 \/ NumParagraphs(NumChapters - 1) = 0

-----------------------------------------------------------------------------
(* Document Layout Builder: ui.get_terminal_size, ui.update_document_layout *)

\* available_height = max(1, height - 4), available_width = max(20, width - 10)
AvailableHeight == Max(1, term_height - 4)
AvailableWidth == Max(20, term_width - 10)

RECURSIVE SumSeq(_)
SumSeq(q) == IF q = << >> THEN 0 ELSE Head(q) + SumSeq(Tail(q))

RECURSIVE Flatten(_)
Flatten(qq) == IF qq = << >> THEN << >> ELSE Head(qq) \o Flatten(Tail(qq))

\* len(sentence): the words and the single blanks between them
SentenceLen(sentence) ==
    IF sentence = << >> THEN 0 ELSE SumSeq(sentence) + Len(sentence) - 1

\* rich's divide_line: a word that does not fit the rest of the line opens a
\* new line; the offset counts the blank that follows each word
RECURSIVE WrapCount(_, _, _, _)
WrapCount(words, width, cell_offset, n) ==
    IF words = << >> THEN n
    ELSE IF width - cell_offset >= Head(words)
         THEN WrapCount(Tail(words), width, cell_offset + Head(words) + 1, n)
         ELSE WrapCount(Tail(words), width, Head(words) + 1, n + 1)

\* len(line.plain) of Text(paragraph, justify="left").wrap(console, width):
\* left justification pads every wrapped line to the full width
wrapped_lines(paragraph, width) ==
    [i \in 1..WrapCount(Flatten(paragraph), width, 0, 1) |-> width]

\* sentence_start of sentence k: current_char_pos after k sentences
RECURSIVE SentenceStart(_, _)
SentenceStart(sentences, k) ==
    IF k = 0 THEN 0
    ELSE SentenceStart(sentences, k - 1) + SentenceLen(sentences[k]) + 1

\* the inner loop over wrapped_lines: the first line whose span holds
\* sentence_start, or -1 when the loop ends without a break
RECURSIVE FindAnchorLine(_, _, _, _)
FindAnchorLine(lens, sentence_start, line_idx, line_char_pos) ==
    IF line_idx >= Len(lens) THEN -1
    ELSE LET line_end == line_char_pos + lens[line_idx + 1]
         IN  IF line_char_pos <= sentence_start /\ sentence_start < line_end
             THEN line_idx
             ELSE FindAnchorLine(lens, sentence_start, line_idx + 1, line_end)

BlankLine == <<-1, -1, -1>>

EmptyLayout ==
    [document_lines |-> << >>, position_to_line |-> << >>,
     line_to_position |-> << >>, paragraph_line_ranges |-> << >>]

\* Variant of LayoutParagraph: the line after the paragraph is mapped to it too
LayoutParagraph_maps_separator(acc, chap_idx, para_idx, width) ==
    LET chapter == chapters[chap_idx + 1]
        paragraph == chapter[para_idx + 1]
        lines0 == IF chap_idx > 0 /\ para_idx = 0
                  THEN Append(acc.document_lines, BlankLine)
                  ELSE acc.document_lines
        paragraph_start_line == Len(lines0)
        lens == wrapped_lines(paragraph, width)
        paragraph_end_line == paragraph_start_line + Len(lens) - 1
        sentences == split_into_sentences(paragraph)
        anchor(k) == FindAnchorLine(lens, SentenceStart(sentences, k), 0, 0)
        anchored == { k \in 0..(Len(sentences) - 1) : anchor(k) # -1 }
        lines1 == lines0 \o [i \in 1..Len(lens) |-> <<chap_idx, para_idx, i - 1>>]
    IN  [document_lines |->
            IF para_idx < Len(chapter) - 1 THEN Append(lines1, BlankLine) ELSE lines1,
         position_to_line |->
            [pos \in { <<chap_idx, para_idx, k>> : k \in anchored }
                |-> paragraph_start_line + anchor(pos[3])] @@ acc.position_to_line,
         line_to_position |->
            [l \in paragraph_start_line..(paragraph_end_line + 1)
                |-> <<chap_idx, para_idx, 0>>] @@ acc.line_to_position,
         paragraph_line_ranges |->
            (<<chap_idx, para_idx>> :> <<paragraph_start_line, paragraph_end_line>>)
                @@ acc.paragraph_line_ranges]

\* The body of the loop over the paragraphs of a chapter, for paragraph
\* (chap_idx, para_idx), added to the layout built so far
LayoutParagraph(acc, chap_idx, para_idx, width) ==
    LET chapter == chapters[chap_idx + 1]
        paragraph == chapter[para_idx + 1]
        lines0 == IF chap_idx > 0 /\ para_idx = 0
                  THEN Append(acc.document_lines, BlankLine)
                  ELSE acc.document_lines
        paragraph_start_line == Len(lines0)
        lens == wrapped_lines(paragraph, width)
        paragraph_end_line == paragraph_start_line + Len(lens) - 1
        sentences == split_into_sentences(paragraph)
        anchor(k) == FindAnchorLine(lens, SentenceStart(sentences, k), 0, 0)
        anchored == { k \in 0..(Len(sentences) - 1) : anchor(k) # -1 }
        lines1 == lines0 \o [i \in 1..Len(lens) |-> <<chap_idx, para_idx, i - 1>>]
    IN  [document_lines |->
            IF para_idx < Len(chapter) - 1 THEN Append(lines1, BlankLine) ELSE lines1,
         position_to_line |->
            [pos \in { <<chap_idx, para_idx, k>> : k \in anchored }
                |-> paragraph_start_line + anchor(pos[3])] @@ acc.position_to_line,
         line_to_position |->
            [l \in paragraph_start_line..paragraph_end_line
                |-> <<chap_idx, para_idx, 0>>] @@ acc.line_to_position,
         paragraph_line_ranges |->
            (<<chap_idx, para_idx>> :> <<paragraph_start_line, paragraph_end_line>>)
                @@ acc.paragraph_line_ranges]

RECURSIVE LayoutFrom(_, _, _, _)
LayoutFrom(acc, chap_idx, para_idx, width) ==
    IF chap_idx >= NumChapters THEN acc
    ELSE IF para_idx >= NumParagraphs(chap_idx)
         THEN LayoutFrom(acc, chap_idx + 1, 0, width)
         ELSE LayoutFrom(LayoutParagraph(acc, chap_idx, para_idx, width),
                         chap_idx, para_idx + 1, width)

\* The line grid and the maps update_document_layout builds for a width
BuildLayout(width) == LayoutFrom(EmptyLayout, 0, 0, width)

TotalLines == Len(document_lines)
\* max(0, len(document_lines) - available_height), in lines
MaxScrollLines == Max(0, TotalLines - AvailableHeight)

-----------------------------------------------------------------------------
(* Scroll Controller.  The helpers take the layout (lay) and the scroll     *)
(* state (sc: offset, target, task) they act on and return the new scroll   *)
(* state, so that a handler can chain them as the source does.              *)

Units(lines) == lines * Scale
\* int(x) of a non-negative offset
IntPart(x) == x \div Scale

CurrentLayout ==
    [document_lines |-> document_lines, position_to_line |-> position_to_line,
     line_to_position |-> line_to_position,
     paragraph_line_ranges |-> paragraph_line_ranges]

CurrentScroll ==
    [offset |-> scroll_offset, target |-> target_scroll_offset,
     task |-> smooth_scroll_task, orphans |-> orphaned_animations]

NoTask == [state |-> "none", steps |-> 0]
TaskActive(task) == task.state \in {"created", "sleeping"}

\* if self.smooth_scroll_task and not self.smooth_scroll_task.done(): cancel()
CancelSmoothScroll(task) ==
    IF TaskActive(task) THEN [state |-> "done", steps |-> 0] ELSE task

\* max(0, len(self.document_lines) - available_height), in units
MaxScroll(lay) == Units(Max(0, Len(lay.document_lines) - AvailableHeight))

\* Lue._is_position_visible
is_position_visible(lay, offset, pos) ==
    /\ pos \in DOMAIN lay.position_to_line
    /\ offset <= Units(lay.position_to_line[pos])
    /\ Units(lay.position_to_line[pos]) < offset + Units(AvailableHeight)

\* Variant of smooth_scroll_to: the new task is started without cancelling
\* the task in flight, which goes on unreferenced
smooth_scroll_to_without_cancel(lay, sc, target_offset) ==
    [offset |-> sc.offset,
     target |-> Max(0, Min(target_offset, Units(Len(lay.document_lines) - 1))),
     task |-> [state |-> "created", steps |-> 0],
     orphans |-> IF TaskActive(sc.task) THEN Min(sc.orphans + 1, 2) ELSE sc.orphans]

\* Lue._smooth_scroll_to: clamp the target, cancel the task in flight, start one
smooth_scroll_to(lay, sc, target_offset) ==
    [offset |-> sc.offset,
     target |-> Max(0, Min(target_offset, Units(Len(lay.document_lines) - 1))),
     task |-> [state |-> "created", steps |-> 0],
     orphans |-> sc.orphans]

\* Lue._scroll_to_position
scroll_to_position(lay, sc, pos, smooth, fsj) ==
    IF ~smooth /\ is_position_visible(lay, sc.offset, pos) THEN sc
    ELSE IF pos \in DOMAIN lay.position_to_line
         THEN LET target_line == lay.position_to_line[pos]
                  wanted == IF fsj THEN Max(0, target_line)
                            ELSE Max(0, target_line - (AvailableHeight \div 2))
                  new_offset == Min(Units(wanted), MaxScroll(lay))
              IN  IF smooth THEN smooth_scroll_to(lay, sc, new_offset)
                  ELSE [sc EXCEPT !.offset = new_offset, !.target = new_offset]
         ELSE sc

\* Variant of scroll_to_position_immediate: the offset jumps and the target
\* of the animation in flight is kept
scroll_to_position_immediate_keeps_target(lay, sc, pos) ==
    IF pos \in DOMAIN lay.position_to_line
    THEN LET new_offset ==
                 Min(Units(Max(0, lay.position_to_line[pos] - (AvailableHeight \div 2))),
                     MaxScroll(lay))
         IN  [sc EXCEPT !.offset = new_offset]
    ELSE sc

\* Lue._scroll_to_position_immediate
scroll_to_position_immediate(lay, sc, pos) ==
    IF pos \in DOMAIN lay.position_to_line
    THEN LET new_offset ==
                 Min(Units(Max(0, lay.position_to_line[pos] - (AvailableHeight \div 2))),
                     MaxScroll(lay))
         IN  [sc EXCEPT !.offset = new_offset, !.target = new_offset]
    ELSE sc

\* One pass of the while loop of Lue._animate_scroll: the step taken from
\* offset towards target (animation_speed 0.15, min_step 2.0)
AnimationStep(offset, target) ==
    LET diff == target - offset
        distance == Abs(diff)
        tenths == IF distance > Units(30) THEN 25
                  ELSE IF distance > Units(15) THEN 18
                  ELSE IF distance > Units(5) THEN 12
                  ELSE IF distance < Units(2) THEN 7
                  ELSE 10
        size == (distance * 15 * tenths) \div 1000
        size2 == IF size < Units(2) THEN Units(2) ELSE size
        size3 == IF size2 > distance THEN distance ELSE size2
    IN  IF diff > 0 THEN size3 ELSE -size3

\* Lue._get_topmost_visible_sentence: the anchored sentence on the first
\* anchored line of the viewport, else the last one before the viewport
get_topmost_visible_sentence(lay, offset, height) ==
    LET top == IntPart(offset)
        bottom == top + Max(1, height - 4)
        p2l == lay.position_to_line
        inside == { pos \in DOMAIN p2l : top <= p2l[pos] /\ p2l[pos] < bottom }
        before == { pos \in DOMAIN p2l : p2l[pos] < top }
        \* dict order: the first key, in document order, on the extreme line
        First(S) == CHOOSE pos \in S : \A q \in S :
                        \/ pos[1] < q[1]
                        \/ pos[1] = q[1] /\ pos[2] < q[2]
                        \/ pos[1] = q[1] /\ pos[2] = q[2] /\ pos[3] <= q[3]
    IN  IF inside # {}
        THEN First({ pos \in inside : \A q \in inside : p2l[pos] <= p2l[q] })
        ELSE IF before # {}
        THEN First({ pos \in before : \A q \in before : p2l[pos] >= p2l[q] })
        ELSE None

\* Lue._find_sentence_at_click: the sentence under a click, or None
find_sentence_at_click(lay, offset, click_x, click_y) ==
    LET content_y == click_y - 3
        content_x == click_x - 5
        clicked_line == IntPart(offset) + content_y
    IN  IF ~(0 <= content_y /\ content_y < AvailableHeight) THEN None
        ELSE IF clicked_line >= Len(lay.document_lines) THEN None
        ELSE IF clicked_line \notin DOMAIN lay.line_to_position THEN None
        ELSE LET chap_idx == lay.line_to_position[clicked_line][1]
                 para_idx == lay.line_to_position[clicked_line][2]
             IN  IF <<chap_idx, para_idx>> \notin DOMAIN lay.paragraph_line_ranges
                 THEN None
                 ELSE LET para_start == lay.paragraph_line_ranges[<<chap_idx, para_idx>>][1]
                          paragraph == chapters[chap_idx + 1][para_idx + 1]
                          sentences == split_into_sentences(paragraph)
                          lens == wrapped_lines(paragraph, AvailableWidth)
                          line_offset == clicked_line - para_start
                          char_pos == SumSeq(SubSeq(lens, 1, line_offset))
                                        + Min(content_x, lens[line_offset + 1])
                          hits == { k \in 0..(Len(sentences) - 1) :
                                      /\ SentenceStart(sentences, k) <= char_pos
                                      /\ char_pos <= SentenceStart(sentences, k)
                                                       + SentenceLen(sentences[k + 1]) }
                      IN  IF 0 <= line_offset /\ line_offset < Len(lens) /\ hits # {}
                          THEN <<chap_idx, para_idx,
                                 CHOOSE k \in hits : \A j \in hits : k <= j>>
                          ELSE None

-----------------------------------------------------------------------------
(* Initial state: the reader after Lue.__init__ and create_textual_adapter, *)
(* with a fresh progress record (position (0,0,0), scroll_offset 0, no      *)
(* manual anchor), for a document of docs and a terminal of widths x heights *)

InitReader(docs, widths, heights) ==
    /\ chapters \in docs
    /\ recording \in BOOLEAN
    /\ term_width \in widths
    /\ term_height \in heights
    /\ audio_position = <<0, 0, 0>>
    /\ display_position = audio_position
    /\ LET lay == BuildLayout(AvailableWidth)
       IN  /\ document_lines = lay.document_lines
           /\ position_to_line = lay.position_to_line
           /\ line_to_position = lay.line_to_position
           /\ paragraph_line_ranges = lay.paragraph_line_ranges
    /\ scroll_offset = 0
    /\ target_scroll_offset = 0
    /\ smooth_scroll_task = NoTask
    /\ orphaned_animations = 0
    /\ auto_scroll_enabled \in BOOLEAN
    /\ first_sentence_jump = FALSE
    /\ resize_anchor = None
    /\ resize_scheduled = FALSE
    /\ stale_view = FALSE
    /\ is_paused \in BOOLEAN
    /\ running = TRUE
    /\ run_state = "init"
    /\ services_pc = "start"
    /\ tts_initialized = FALSE
    /\ command = NoCommand
    /\ command_received_event = FALSE
    /\ overwritten = NoCommand
    /\ restart_tasks = << >>
    /\ audio_restart_lock = FALSE
    /\ audio_playing = FALSE
    /\ play_position = None
    /\ audio_raised = FALSE
    /\ nav_pending = None
    /\ burst = [navs |-> 0, plays |-> 0]
    /\ last_play = [pos |-> None, expected |-> None]
    /\ fn_in = NoCall
    /\ fn_out = None
    /\ scroll_in = NoScrollCall
    /\ scroll_out = 0
    /\ split_in = NoSplitCall
    /\ split_out = << >>
    /\ background_task = "none"
    /\ shutdown_log = << >>

Init == InitReader(Docs, TermWidths, TermHeights)

\* The reader is closed after its last save and the book is opened again in
\* the same terminal: Lue.__init__ with the progress record that
\* _save_extended_progress wrote (position, scroll_offset, auto-scroll, TTS
\* flag, and the topmost visible sentence as manual scroll anchor).
\* _load_content builds the grid, _initialize_progress restores the record,
\* _initialize_ui_state sets the target and the rest of the state.
Reload ==
    LET manual_anchor == get_topmost_visible_sentence(CurrentLayout, scroll_offset,
                                                      term_height)
        lay == BuildLayout(AvailableWidth)
        restored == IF manual_anchor # None /\ manual_anchor \in DOMAIN lay.position_to_line
                    THEN Units(lay.position_to_line[manual_anchor])
                    ELSE scroll_offset
    IN  /\ display_position' = audio_position
        /\ document_lines' = lay.document_lines
        /\ position_to_line' = lay.position_to_line
        /\ line_to_position' = lay.line_to_position
        /\ paragraph_line_ranges' = lay.paragraph_line_ranges
        /\ scroll_offset' = restored
        /\ target_scroll_offset' = restored
        /\ smooth_scroll_task' = NoTask
        /\ orphaned_animations' = 0
        /\ first_sentence_jump' = FALSE
        /\ resize_anchor' = None
        /\ resize_scheduled' = FALSE
        /\ stale_view' = FALSE
        /\ running' = TRUE
        /\ run_state' = "init"
        /\ services_pc' = "start"
        /\ tts_initialized' = FALSE
        /\ command' = NoCommand
        /\ command_received_event' = FALSE
        /\ overwritten' = NoCommand
        /\ restart_tasks' = << >>
        /\ audio_restart_lock' = FALSE
        /\ audio_playing' = FALSE
        /\ play_position' = None
        /\ audio_raised' = FALSE
        /\ nav_pending' = None
        /\ burst' = [navs |-> 0, plays |-> 0]
        /\ last_play' = [pos |-> None, expected |-> None]
        /\ background_task' = "none"
        /\ shutdown_log' = << >>
        /\ UNCHANGED << docVars, audio_position, termVars, auto_scroll_enabled,
                        is_paused, fnVars >>

-----------------------------------------------------------------------------
(* Shared pieces of the handlers *)

SetScroll(sc) ==
    /\ scroll_offset' = sc.offset
    /\ target_scroll_offset' = sc.target
    /\ smooth_scroll_task' = sc.task
    /\ orphaned_animations' = sc.orphans

SetLayout(lay) ==
    /\ document_lines' = lay.document_lines
    /\ position_to_line' = lay.position_to_line
    /\ line_to_position' = lay.line_to_position
    /\ paragraph_line_ranges' = lay.paragraph_line_ranges

NewTask(kind) == [kind |-> kind, pc |-> "new", pending |-> FALSE]

\* self.pending_restart_task = asyncio.create_task(
\*     self._restart_audio_after_navigation())
CreatePendingRestart(tasks) ==
    Append([i \in 1..Len(tasks) |-> [tasks[i] EXCEPT !.pending = FALSE]],
           [NewTask("A") EXCEPT !.pending = TRUE])

\* LueApp._update_position, restart part: if self._tts_initialized:
\*     asyncio.create_task(self._handle_navigation_audio_restart())
UpdatePositionRestart(tasks) ==
    IF tts_initialized THEN Append(tasks, NewTask("B")) ELSE tasks

\* history of a position-changing command: it opens a burst, or joins the
\* burst of an earlier command whose restart has not started playback
NavHistory(new_pos) ==
    IF recording
    THEN /\ nav_pending' = new_pos
         /\ burst' = IF restart_tasks # << >> /\ burst.navs > 0 /\ burst.plays = 0
                     THEN [navs |-> Min(burst.navs + 1, 2), plays |-> 0]
                     ELSE [navs |-> 1, plays |-> 0]
         /\ UNCHANGED last_play
    ELSE UNCHANGED histVars

\* audio.play_from_current_position: the engine starts at audio_position
PlayFromCurrentPosition ==
    /\ audio_playing' = TRUE
    /\ play_position' = audio_position
    /\ audio_raised' = FALSE

\* audio.stop_and_clear_audio
StopAndClearAudio ==
    /\ audio_playing' = FALSE
    /\ audio_raised' = FALSE
    /\ UNCHANGED play_position

\* a call of the audio engine raises: nothing is playing afterwards
AudioRaises ==
    /\ audio_playing' = FALSE
    /\ audio_raised' = TRUE
    /\ UNCHANGED play_position

\* Lue._post_command: the slot takes the command and the event is set.
\* (History, while Lue.run is there to consume: the command still in the
\* slot, which this post replaces.)
Post(cmd) ==
    /\ command' = cmd
    /\ command_received_event' = TRUE
    /\ overwritten' = IF recording /\ run_state = "loop" /\ command # NoCommand
                      THEN command ELSE overwritten

\* the loop attribute is set by Lue.run or by LueApp._initialize_services
LoopSet == services_pc # "start" \/ run_state = "loop"

\* LueApp._update_position creates one restart task when TTS is initialised
RoomForRestart == tts_initialized => Len(restart_tasks) < MaxTasks

-----------------------------------------------------------------------------
(* Start-up *)

\* Lue.run up to its command loop: refuses an empty document, otherwise
\* starts the background task and the playback
Run ==
    /\ run_state = "init"
    /\ IF chapters = << >> \/ chapters[1] = << >>
       THEN /\ run_state' = "refused"
            /\ UNCHANGED << audioVars, background_task >>
       ELSE /\ run_state' = "loop"
            /\ background_task' = "running"
            /\ PlayFromCurrentPosition
    /\ UNCHANGED << docVars, posVars, layoutVars, termVars, scrollVars, modeVars,
                    resizeVars, is_paused, running, services_pc, tts_initialized,
                    loopVars, restartVars, histVars, fnVars, shutdown_log >>

\* ui.update_document_layout, after the grid is built: the scroll state
\* for the new layout lay
LayoutScroll(lay) ==
    LET anchor_pos == resize_anchor
        use_anchor == /\ ~auto_scroll_enabled
                      /\ resize_anchor # None
                      /\ anchor_pos \in DOMAIN lay.position_to_line
        anchored == Min(Units(lay.position_to_line[anchor_pos]), MaxScroll(lay))
    IN  IF use_anchor
        THEN [CurrentScroll EXCEPT !.offset = anchored, !.target = anchored]
        ELSE scroll_to_position(lay, CurrentScroll, display_position, FALSE,
                                first_sentence_jump)

\* ui.update_document_layout: rebuild the grid for the terminal as it is now
UpdateDocumentLayout ==
    LET lay == BuildLayout(AvailableWidth)
    IN  /\ SetLayout(lay)
        /\ SetScroll(LayoutScroll(lay))
        /\ resize_anchor' = IF ~auto_scroll_enabled /\ resize_anchor # None
                            THEN None ELSE resize_anchor
        /\ stale_view' = FALSE
        /\ UNCHANGED resize_scheduled

\* LueApp._initialize_services up to its await of initialize_tts: the loop
\* attribute is set and the layout rebuilt
ServicesLayout ==
    /\ services_pc = "start"
    /\ services_pc' = "tts"
    /\ UpdateDocumentLayout
    /\ UNCHANGED << docVars, posVars, termVars, modeVars, is_paused, running,
                    run_state, tts_initialized, loopVars, restartVars, audioVars,
                    histVars, fnVars, shutdownVars >>

\* LueApp._initialize_services after initialize_tts: the highlight callback
\* is installed and playback starts unless paused
ServicesTTS ==
    /\ services_pc = "tts"
    /\ services_pc' = "done"
    /\ tts_initialized' = TRUE
    /\ IF ~is_paused THEN PlayFromCurrentPosition ELSE UNCHANGED audioVars
    /\ UNCHANGED << docVars, posVars, layoutVars, termVars, scrollVars, modeVars,
                    resizeVars, is_paused, running, run_state, loopVars,
                    restartVars, histVars, fnVars, shutdownVars >>

-----------------------------------------------------------------------------
(* The Textual actions of LueApp: the adapter method, then _update_position *)

NavCommands == {"next_sentence", "prev_sentence", "next_paragraph", "prev_paragraph"}

\* Lue._handle_navigation_immediate(cmd): direction and mode from the name
NavigationTarget(current_pos, cmd) ==
    LET mode == IF cmd \in {"next_sentence", "prev_sentence"}
                THEN "sentence" ELSE "paragraph"
    IN  IF cmd \in {"next_sentence", "next_paragraph"}
        THEN advance_position(current_pos, mode, TRUE)
        ELSE rewind_position(current_pos, mode)

\* the navigation raises: a rewind that reads an empty chapter
navigation_raises(current_pos, cmd) ==
    /\ cmd \in {"prev_sentence", "prev_paragraph"}
    /\ rewind_raises(current_pos, IF cmd = "prev_sentence" THEN "sentence"
                                  ELSE "paragraph")

\* action_next_sentence, action_prev_sentence, action_next_paragraph,
\* action_prev_paragraph; an exception of the navigation is swallowed by the
\* action, which then does nothing more
ActionNavigate(cmd) ==
    LET new_pos == NavigationTarget(audio_position, cmd)
    IN  /\ RoomForRestart
        /\ ~navigation_raises(audio_position, cmd)
        /\ IF new_pos # None
           THEN /\ first_sentence_jump' = FALSE
                /\ audio_position' = new_pos
                /\ display_position' = new_pos
                /\ SetScroll(scroll_to_position_immediate(CurrentLayout,
                                                          CurrentScroll, new_pos))
                /\ NavHistory(new_pos)
           ELSE /\ display_position' = audio_position
                /\ UNCHANGED << audio_position, first_sentence_jump, scrollVars,
                                histVars >>
        /\ restart_tasks' = UpdatePositionRestart(restart_tasks)
        /\ UNCHANGED << docVars, layoutVars, termVars, auto_scroll_enabled,
                        resizeVars, flagVars, loopVars, audio_restart_lock,
                        audioVars, fnVars, shutdownVars >>

\* Variant of page_scroll_offset: page-down adds the page without the clamp
\* to max_scroll
page_scroll_offset_unclamped(direction, offset, total_lines, height) ==
    LET page_size == Max(1, height - 4)
    IN  IF direction < 0 THEN Max(0, offset - Units(page_size))
        ELSE offset + Units(page_size)

\* TextualReaderAdapter.scroll_page_up / scroll_page_down and
\* Lue._handle_page_scroll_immediate: the new offset
page_scroll_offset(direction, offset, total_lines, height) ==
    LET page_size == Max(1, height - 4)
    IN  IF direction < 0 THEN Max(0, offset - Units(page_size))
        ELSE Min(Units(Max(0, total_lines - page_size)),
                 offset + Units(page_size))

\* A manual scroll that leaves the animation in flight running
ManualScroll_without_cancel(new_offset) ==
    /\ RoomForRestart
    /\ auto_scroll_enabled' = FALSE
    /\ scroll_offset' = new_offset
    /\ target_scroll_offset' = new_offset
    /\ UNCHANGED smooth_scroll_task
    /\ UNCHANGED orphaned_animations
    /\ audio_position' = display_position
    /\ display_position' = display_position
    /\ restart_tasks' = UpdatePositionRestart(restart_tasks)
    /\ UNCHANGED << docVars, layoutVars, termVars, first_sentence_jump,
                    resizeVars, flagVars, loopVars, audio_restart_lock,
                    audioVars, histVars, fnVars, shutdownVars >>

\* what every manual scroll shares: auto-scroll off, the offset set with its
\* target, the animation cancelled, the audio position taken from the
\* display position; then _update_position
ManualScroll(new_offset) ==
    /\ RoomForRestart
    /\ auto_scroll_enabled' = FALSE
    /\ scroll_offset' = new_offset
    /\ target_scroll_offset' = new_offset
    /\ smooth_scroll_task' = CancelSmoothScroll(smooth_scroll_task)
    /\ UNCHANGED orphaned_animations
    /\ audio_position' = display_position
    /\ display_position' = display_position
    /\ restart_tasks' = UpdatePositionRestart(restart_tasks)
    /\ UNCHANGED << docVars, layoutVars, termVars, first_sentence_jump,
                    resizeVars, flagVars, loopVars, audio_restart_lock,
                    audioVars, histVars, fnVars, shutdownVars >>

\* action_scroll_up: Lue._handle_scroll_up_immediate
ActionScrollUp == ManualScroll(Max(0, scroll_offset - Units(1)))

\* action_scroll_down: Lue._handle_scroll_down_immediate
ActionScrollDown ==
    ManualScroll(Min(Units(Max(0, TotalLines - (term_height - 4))),
                     scroll_offset + Units(1)))

\* action_scroll_page_up: TextualReaderAdapter.scroll_page_up
ActionScrollPageUp ==
    ManualScroll(page_scroll_offset(-1, scroll_offset, TotalLines, term_height))

\* action_scroll_page_down: TextualReaderAdapter.scroll_page_down
ActionScrollPageDown ==
    ManualScroll(page_scroll_offset(1, scroll_offset, TotalLines, term_height))

\* what the jumps to either end share: as a manual scroll, but the audio
\* position is kept; _update_position then copies it to the display position
JumpScroll(new_offset) ==
    /\ RoomForRestart
    /\ auto_scroll_enabled' = FALSE
    /\ scroll_offset' = new_offset
    /\ target_scroll_offset' = new_offset
    /\ smooth_scroll_task' = CancelSmoothScroll(smooth_scroll_task)
    /\ UNCHANGED orphaned_animations
    /\ display_position' = audio_position
    /\ restart_tasks' = UpdatePositionRestart(restart_tasks)
    /\ UNCHANGED << docVars, audio_position, layoutVars, termVars,
                    first_sentence_jump, resizeVars, flagVars, loopVars,
                    audio_restart_lock, audioVars, histVars, fnVars, shutdownVars >>

\* action_move_to_beginning: Lue._handle_move_to_beginning_immediate
ActionMoveToBeginning == JumpScroll(0)

\* action_move_to_end: Lue._handle_move_to_end_immediate
ActionMoveToEnd == JumpScroll(MaxScroll(CurrentLayout))

\* TextualReaderAdapter._restart_audio_after_navigation: with a model, a
\* loop and playback not paused, a restart task becomes the pending one
AdapterRestart(tasks) ==
    IF LoopSet /\ ~is_paused THEN CreatePendingRestart(tasks) ELSE tasks

\* action_move_to_top_visible: TextualReaderAdapter.move_to_top_visible with
\* its _update_ui_position, then _update_position
ActionMoveToTopVisible ==
    LET start_line == IntPart(scroll_offset)
        new_pos == line_to_position[start_line]
        new_offset == IF new_pos \in DOMAIN position_to_line
                      THEN Min(Units(Max(0, position_to_line[new_pos]
                                              - (AvailableHeight \div 2))),
                               MaxScroll(CurrentLayout))
                      ELSE scroll_offset
    IN  /\ Len(restart_tasks) + 3 <= MaxTasks
        /\ IF start_line \in DOMAIN line_to_position
           THEN /\ audio_position' = new_pos
                /\ display_position' = new_pos
                /\ scroll_offset' = new_offset
                /\ target_scroll_offset' =
                       IF new_pos \in DOMAIN position_to_line
                       THEN new_offset ELSE target_scroll_offset
                /\ restart_tasks' =
                       UpdatePositionRestart(AdapterRestart(AdapterRestart(restart_tasks)))
                /\ NavHistory(new_pos)
           ELSE /\ display_position' = audio_position
                /\ restart_tasks' = UpdatePositionRestart(restart_tasks)
                /\ UNCHANGED << audio_position, scroll_offset,
                                target_scroll_offset, histVars >>
        /\ UNCHANGED << docVars, layoutVars, termVars, smooth_scroll_task,
                        orphaned_animations,
                        modeVars, resizeVars, flagVars, loopVars,
                        audio_restart_lock, audioVars, fnVars, shutdownVars >>

\* action_pause: TextualReaderAdapter.toggle_pause, then
\* LueApp._handle_audio_state_change when TTS is initialised
ActionPause ==
    /\ is_paused' = ~is_paused
    /\ IF tts_initialized
       THEN IF is_paused' THEN StopAndClearAudio ELSE PlayFromCurrentPosition
       ELSE UNCHANGED audioVars
    /\ UNCHANGED << docVars, posVars, layoutVars, termVars, scrollVars, modeVars,
                    resizeVars, running, run_state, services_pc, tts_initialized,
                    loopVars, restartVars, histVars, fnVars, shutdownVars >>

\* action_toggle_auto_scroll: TextualReaderAdapter.toggle_auto_scroll
ActionToggleAutoScroll ==
    /\ auto_scroll_enabled' = ~auto_scroll_enabled
    /\ IF auto_scroll_enabled'
       THEN SetScroll(scroll_to_position_immediate(CurrentLayout, CurrentScroll,
                                                   audio_position))
       ELSE UNCHANGED scrollVars
    /\ UNCHANGED << docVars, posVars, layoutVars, termVars, first_sentence_jump,
                    resizeVars, flagVars, loopVars, restartVars, audioVars,
                    histVars, fnVars, shutdownVars >>

\* jump_to_chapter without its range test
JumpToChapter_unchecked(chapter_idx) ==
    LET new_pos == <<chapter_idx, 0, 0>>
        moved == new_pos \in DOMAIN position_to_line
    IN  /\ audio_position' = new_pos
        /\ display_position' = new_pos
        /\ scroll_offset' =
               IF moved THEN Units(position_to_line[new_pos]) ELSE scroll_offset
        /\ target_scroll_offset' =
               IF moved THEN Units(position_to_line[new_pos])
               ELSE target_scroll_offset
        /\ UNCHANGED << docVars, layoutVars, termVars, smooth_scroll_task,
                        orphaned_animations, modeVars, resizeVars, flagVars,
                        loopVars, restartVars, audioVars, histVars, fnVars,
                        shutdownVars >>

\* TextualReaderAdapter.jump_to_chapter(chapter_idx) by itself, as bound onto
\* the Lue instance: nothing happens for an index out of range
JumpToChapter(chapter_idx) ==
    LET new_pos == <<chapter_idx, 0, 0>>
        moved == new_pos \in DOMAIN position_to_line
    IN  /\ IF 0 <= chapter_idx /\ chapter_idx < Len(chapters)
           THEN /\ audio_position' = new_pos
                /\ display_position' = new_pos
                /\ scroll_offset' =
                       IF moved THEN Units(position_to_line[new_pos]) ELSE scroll_offset
                /\ target_scroll_offset' =
                       IF moved THEN Units(position_to_line[new_pos])
                       ELSE target_scroll_offset
           ELSE UNCHANGED << posVars, scroll_offset, target_scroll_offset >>
        /\ UNCHANGED << docVars, layoutVars, termVars, smooth_scroll_task,
                        orphaned_animations, modeVars, resizeVars, flagVars,
                        loopVars, restartVars, audioVars, histVars, fnVars,
                        shutdownVars >>

\* TOCModal.action_select_chapter: TextualReaderAdapter.jump_to_chapter, then
\* handle_toc_result calls _update_position
SelectChapter(chapter_idx) ==
    LET new_pos == <<chapter_idx, 0, 0>>
        moved == new_pos \in DOMAIN position_to_line
    IN  /\ RoomForRestart
        /\ IF 0 <= chapter_idx /\ chapter_idx < Len(chapters)
           THEN /\ audio_position' = new_pos
                /\ display_position' = new_pos
                /\ scroll_offset' =
                       IF moved THEN Units(position_to_line[new_pos]) ELSE scroll_offset
                /\ target_scroll_offset' =
                       IF moved THEN Units(position_to_line[new_pos])
                       ELSE target_scroll_offset
                /\ NavHistory(new_pos)
           ELSE /\ display_position' = audio_position
                /\ UNCHANGED << audio_position, scroll_offset,
                                target_scroll_offset, histVars >>
        /\ restart_tasks' = UpdatePositionRestart(restart_tasks)
        /\ UNCHANGED << docVars, layoutVars, termVars, smooth_scroll_task,
                        orphaned_animations,
                        modeVars, resizeVars, flagVars, loopVars,
                        audio_restart_lock, audioVars, fnVars, shutdownVars >>

-----------------------------------------------------------------------------
(* The terminal, the posted commands and the command loop of Lue.run *)

\* the pending restart task is cancelled from outside: a task that has not
\* run is dropped, one inside its debounce sleep leaves its lock section
CancelPendingRestart(tasks) ==
    SelectSeq(tasks, LAMBDA t : ~t.pending)

PendingHoldsLock(tasks) ==
    \E i \in 1..Len(tasks) : tasks[i].pending /\ tasks[i].pc = "stopped"

\* Lue._handle_resize with the terminal already at its new size: the
\* ResizeAnchor of manual mode, the resize_scheduled flag, the '_resize' post
ResizeAnchorFor(height) ==
    LET top_sentence == get_topmost_visible_sentence(CurrentLayout, scroll_offset,
                                                     height)
        available_height == Max(1, height - 4)
        top_line == position_to_line[top_sentence]
        fraction_in_view ==
            [num |-> Max(0, Min(Units(available_height),
                                Units(top_line) - scroll_offset)),
             den |-> Units(available_height)]
    IN  IF ~auto_scroll_enabled /\ top_sentence # None
           /\ top_sentence \in DOMAIN position_to_line
        THEN <<top_sentence, fraction_in_view>>
        ELSE resize_anchor

\* The terminal changes size; SIGWINCH runs Lue._handle_resize once Lue.run
\* has installed it
TerminalResize(width, height) ==
    /\ <<width, height>> # <<term_width, term_height>>
    /\ term_width' = width
    /\ term_height' = height
    /\ stale_view' = TRUE
    /\ IF run_state = "loop" /\ ~resize_scheduled
       THEN /\ resize_anchor' = ResizeAnchorFor(height)
            /\ resize_scheduled' = TRUE
            /\ Post(Command("_resize", None))
       ELSE UNCHANGED << resize_anchor, resize_scheduled, loopVars >>
    /\ UNCHANGED << docVars, posVars, layoutVars, scrollVars, modeVars,
                    flagVars, restartVars, audioVars, histVars,
                    fnVars, shutdownVars >>

\* input_handler.process_input, a left click on the text: the pending
\* restart is cancelled and ('click_jump', (x, y)) is posted
PostClickJump(click_x, click_y) ==
    /\ run_state = "loop"
    /\ restart_tasks' = CancelPendingRestart(restart_tasks)
    /\ audio_restart_lock' = IF PendingHoldsLock(restart_tasks) THEN FALSE
                             ELSE audio_restart_lock
    /\ Post(Command("click_jump", <<click_x, click_y>>))
    /\ UNCHANGED << docVars, posVars, layoutVars, termVars, scrollVars, modeVars,
                    resizeVars, flagVars, audioVars, histVars, fnVars, shutdownVars >>

\* The steps of Lue._shutdown in the order of the code: the step after pc
shutdown_next_audio_first(pc) ==
    CASE pc = "loop" -> "stop_audio"
      [] pc = "stop_audio" -> "cancel_scroll"
      [] pc = "cancel_scroll" -> "cancel_background"
      [] pc = "cancel_background" -> "cancel_pending"
      [] pc = "cancel_pending" -> "save_progress"
      [] pc = "save_progress" -> "done"

shutdown_next(pc) ==
    CASE pc = "loop" -> "cancel_scroll"
      [] pc = "cancel_scroll" -> "cancel_background"
      [] pc = "cancel_background" -> "cancel_pending"
      [] pc = "cancel_pending" -> "stop_audio"
      [] pc = "stop_audio" -> "save_progress"
      [] pc = "save_progress" -> "done"

\* The command loop without the test of is_paused on a highlight report
ConsumeCommand_ignores_pause ==
    LET cmd == command
        clicked_position == find_sentence_at_click(CurrentLayout, scroll_offset,
                                                   cmd.data[1], cmd.data[2])
        jump == cmd.name = "click_jump" /\ clicked_position # None
    IN  /\ run_state = "loop"
        /\ command_received_event
        /\ jump => Len(restart_tasks) < MaxTasks
        /\ run_state' = IF running THEN run_state ELSE shutdown_next(run_state)
        /\ command_received_event' = FALSE
        /\ command' = NoCommand
        /\ UNCHANGED overwritten
        /\ IF cmd.name = "_update_highlight"
           THEN /\ audio_position' = cmd.data
                /\ UNCHANGED << display_position, modeVars, restart_tasks, histVars >>
           ELSE IF jump
           THEN /\ first_sentence_jump' = FALSE
                /\ audio_position' = clicked_position
                /\ display_position' = clicked_position
                /\ auto_scroll_enabled' = FALSE
                /\ restart_tasks' = CreatePendingRestart(restart_tasks)
                /\ NavHistory(clicked_position)
           ELSE UNCHANGED << posVars, modeVars, restart_tasks, histVars >>
        /\ UNCHANGED << docVars, layoutVars, termVars, scrollVars, resizeVars,
                        is_paused, running, services_pc, tts_initialized,
                        audio_restart_lock, audioVars, fnVars, shutdownVars >>

\* One pass of the while loop of Lue.run: wait for the event, clear it, take
\* the command out of the slot and handle it; with running false the loop
\* ends after the pass and Lue._shutdown begins
ConsumeCommand ==
    LET cmd == command
        clicked_position == find_sentence_at_click(CurrentLayout, scroll_offset,
                                                   cmd.data[1], cmd.data[2])
        jump == cmd.name = "click_jump" /\ clicked_position # None
    IN  /\ run_state = "loop"
        /\ command_received_event
        /\ jump => Len(restart_tasks) < MaxTasks
        /\ run_state' = IF running THEN run_state ELSE shutdown_next(run_state)
        /\ command_received_event' = FALSE
        /\ command' = NoCommand
        /\ UNCHANGED overwritten
        /\ IF cmd.name = "_update_highlight" /\ ~is_paused
           THEN /\ audio_position' = cmd.data
                /\ UNCHANGED << display_position, modeVars, restart_tasks, histVars >>
           ELSE IF jump
           THEN /\ first_sentence_jump' = FALSE
                /\ audio_position' = clicked_position
                /\ display_position' = clicked_position
                /\ auto_scroll_enabled' = FALSE
                /\ restart_tasks' = CreatePendingRestart(restart_tasks)
                /\ NavHistory(clicked_position)
           ELSE UNCHANGED << posVars, modeVars, restart_tasks, histVars >>
        /\ UNCHANGED << docVars, layoutVars, termVars, scrollVars, resizeVars,
                        is_paused, running, services_pc, tts_initialized,
                        audio_restart_lock, audioVars, fnVars, shutdownVars >>

\* One pass of the while loop of Lue.run on a click that hits a sentence,
\* with _save_extended_progress raising (the progress cannot be written): the
\* assignments before the call are made, no restart task is created, and the
\* exception leaves the loop and Lue.run, which has no handler around it
ConsumeCommandRaises ==
    LET cmd == command
        clicked_position == find_sentence_at_click(CurrentLayout, scroll_offset,
                                                   cmd.data[1], cmd.data[2])
    IN  /\ run_state = "loop"
        /\ command_received_event
        /\ cmd.name = "click_jump"
        /\ clicked_position # None
        /\ command_received_event' = FALSE
        /\ command' = NoCommand
        /\ first_sentence_jump' = FALSE
        /\ audio_position' = clicked_position
        /\ display_position' = clicked_position
        /\ auto_scroll_enabled' = FALSE
        /\ run_state' = "raised"
        /\ shutdown_log' = Append(shutdown_log, "exception")
        /\ UNCHANGED << docVars, layoutVars, termVars, scrollVars, resizeVars,
                        is_paused, running, services_pc, tts_initialized,
                        overwritten, restartVars, audioVars, histVars, fnVars,
                        background_task >>

\* Variant of BackgroundTick: the display position follows the audio
\* position only when auto-scroll is on
BackgroundTick_syncs_only_with_auto_scroll ==
    /\ background_task = "running"
    /\ running
    /\ ~is_paused
    /\ audio_position # display_position
    /\ IF auto_scroll_enabled
       THEN /\ display_position' = audio_position
            /\ SetScroll(scroll_to_position(CurrentLayout, CurrentScroll,
                                            audio_position, TRUE, first_sentence_jump))
       ELSE UNCHANGED << display_position, scrollVars >>
    /\ UNCHANGED << docVars, audio_position, layoutVars, termVars, modeVars,
                    resizeVars, flagVars, loopVars, restartVars, audioVars,
                    histVars, fnVars, shutdownVars >>

\* Variant of BackgroundTick: the sync scrolls to the new position whether
\* auto-scroll is on or off
BackgroundTick_always_scrolls ==
    /\ background_task = "running"
    /\ running
    /\ ~is_paused
    /\ audio_position # display_position
    /\ display_position' = audio_position
    /\ SetScroll(scroll_to_position(CurrentLayout, CurrentScroll,
                                    audio_position, TRUE, first_sentence_jump))
    /\ UNCHANGED << docVars, audio_position, layoutVars, termVars, modeVars,
                    resizeVars, flagVars, loopVars, restartVars, audioVars,
                    histVars, fnVars, shutdownVars >>

\* One pass of Lue._background_task_loop that has work: the display position
\* follows the audio position, scrolling smoothly when auto-scroll is on.
\* (first_sentence_jump has no setter that is ever called, so its reset in
\* this loop never applies.)
BackgroundTick ==
    /\ background_task = "running"
    /\ running
    /\ ~is_paused
    /\ audio_position # display_position
    /\ display_position' = audio_position
    /\ IF auto_scroll_enabled
       THEN SetScroll(scroll_to_position(CurrentLayout, CurrentScroll,
                                         audio_position, TRUE, first_sentence_jump))
       ELSE UNCHANGED scrollVars
    /\ UNCHANGED << docVars, audio_position, layoutVars, termVars, modeVars,
                    resizeVars, flagVars, loopVars, restartVars, audioVars,
                    histVars, fnVars, shutdownVars >>

\* Lue._animate_scroll from one await to the next: the entry test, then one
\* pass of the loop, or the final assignment of the target
AnimateScroll ==
    LET task == smooth_scroll_task
        distance == Abs(target_scroll_offset - scroll_offset)
        moved == scroll_offset + AnimationStep(scroll_offset, target_scroll_offset)
        max_scroll == Units(Max(0, TotalLines - (term_height - 4)))
    IN  /\ TaskActive(task)
        /\ IF task.state = "created" /\ distance * 10 < Scale
           THEN /\ smooth_scroll_task' = [state |-> "done", steps |-> 0]
                /\ UNCHANGED << scroll_offset, target_scroll_offset >>
           ELSE IF distance * 2 > Scale /\ task.steps < 80
           THEN /\ scroll_offset' = Max(0, Min(moved, max_scroll))
                /\ smooth_scroll_task' = [state |-> "sleeping",
                                          steps |-> task.steps + 1]
                /\ UNCHANGED target_scroll_offset
           ELSE /\ scroll_offset' = target_scroll_offset
                /\ smooth_scroll_task' = [state |-> "done", steps |-> 0]
                /\ UNCHANGED target_scroll_offset
        /\ UNCHANGED << docVars, posVars, layoutVars, termVars, modeVars,
                        resizeVars, flagVars, loopVars, restartVars, audioVars,
                        histVars, fnVars, shutdownVars, orphaned_animations >>

\* The audio engine moves on to the next sentence and reports it through
\* reader._post_command_sync: the post of Lue._post_command_sync when a loop
\* is set, and the direct update of LueApp's enhanced_post_command_sync once
\* the highlight callback is installed.  At the end of the book it stops.
HighlightAdvance ==
    LET next_pos == advance_position(play_position, "sentence", FALSE)
        cmd == Command("_update_highlight", next_pos)
    IN  /\ audio_playing
        /\ play_position # None
        /\ IF next_pos = None
           THEN /\ audio_playing' = FALSE
                /\ UNCHANGED << play_position, posVars, loopVars >>
           ELSE /\ audio_playing' = TRUE
                /\ play_position' = next_pos
                /\ IF LoopSet THEN Post(cmd) ELSE UNCHANGED loopVars
                /\ IF tts_initialized /\ ~is_paused
                   THEN /\ audio_position' = next_pos
                        /\ display_position' = next_pos
                   ELSE UNCHANGED posVars
        /\ UNCHANGED << docVars, layoutVars, termVars, scrollVars, modeVars,
                        resizeVars, flagVars, restartVars, histVars, fnVars,
                        shutdownVars, audio_raised >>

-----------------------------------------------------------------------------
(* Exit: the signal handler and the steps of Lue._shutdown *)

\* Lue._handle_exit_signal (SIGINT, SIGTERM): the progress is saved, running
\* is cleared and 'quit' is posted
HandleExitSignal ==
    /\ run_state = "loop"
    /\ running
    /\ running' = FALSE
    /\ shutdown_log' = Append(shutdown_log, "save_progress")
    /\ Post(Command("quit", None))
    /\ UNCHANGED << docVars, posVars, layoutVars, termVars, scrollVars, modeVars,
                    resizeVars, is_paused, run_state, services_pc,
                    tts_initialized, restartVars, audioVars, histVars, fnVars,
                    background_task >>

\* Lue._shutdown, first task of tasks_to_cancel: the scroll animation is
\* cancelled and awaited if it is alive
ShutdownCancelScroll ==
    /\ run_state = "cancel_scroll"
    /\ run_state' = shutdown_next(run_state)
    /\ smooth_scroll_task' = CancelSmoothScroll(smooth_scroll_task)
    /\ UNCHANGED orphaned_animations
    /\ shutdown_log' = IF TaskActive(smooth_scroll_task)
                       THEN Append(shutdown_log, "cancel_scroll")
                       ELSE shutdown_log
    /\ UNCHANGED << docVars, posVars, layoutVars, termVars, scroll_offset,
                    target_scroll_offset, modeVars, resizeVars, is_paused,
                    running, services_pc, tts_initialized, loopVars,
                    restartVars, audioVars, histVars, fnVars, background_task >>

\* Lue._shutdown, second task: the background task is cancelled and awaited
ShutdownCancelBackground ==
    /\ run_state = "cancel_background"
    /\ run_state' = shutdown_next(run_state)
    /\ background_task' = IF background_task = "running" THEN "done"
                          ELSE background_task
    /\ shutdown_log' = IF background_task = "running"
                       THEN Append(shutdown_log, "cancel_background")
                       ELSE shutdown_log
    /\ UNCHANGED << docVars, posVars, layoutVars, termVars, scrollVars, modeVars,
                    resizeVars, is_paused, running, services_pc,
                    tts_initialized, loopVars, restartVars, audioVars, histVars,
                    fnVars >>

\* Lue._shutdown, third task: the pending restart task is cancelled and
\* awaited; inside its debounce sleep it leaves its lock section
ShutdownCancelPending ==
    /\ run_state = "cancel_pending"
    /\ run_state' = shutdown_next(run_state)
    /\ restart_tasks' = CancelPendingRestart(restart_tasks)
    /\ audio_restart_lock' = IF PendingHoldsLock(restart_tasks) THEN FALSE
                             ELSE audio_restart_lock
    /\ shutdown_log' = IF \E i \in 1..Len(restart_tasks) : restart_tasks[i].pending
                       THEN Append(shutdown_log, "cancel_pending")
                       ELSE shutdown_log
    /\ UNCHANGED << docVars, posVars, layoutVars, termVars, scrollVars, modeVars,
                    resizeVars, is_paused, running, services_pc,
                    tts_initialized, loopVars, audioVars, histVars, fnVars,
                    background_task >>

\* Lue._shutdown: await audio.stop_and_clear_audio(self)
ShutdownStopAudio ==
    /\ run_state = "stop_audio"
    /\ run_state' = shutdown_next(run_state)
    /\ StopAndClearAudio
    /\ shutdown_log' = Append(shutdown_log, "stop_audio")
    /\ UNCHANGED << docVars, posVars, layoutVars, termVars, scrollVars, modeVars,
                    resizeVars, is_paused, running, services_pc,
                    tts_initialized, loopVars, restartVars, histVars, fnVars,
                    background_task >>

\* Lue._shutdown: self._save_extended_progress(), then the terminal is
\* restored
ShutdownSaveProgress ==
    /\ run_state = "save_progress"
    /\ run_state' = shutdown_next(run_state)
    /\ shutdown_log' = Append(shutdown_log, "save_progress")
    /\ UNCHANGED << docVars, posVars, layoutVars, termVars, scrollVars, modeVars,
                    resizeVars, is_paused, running, services_pc,
                    tts_initialized, loopVars, restartVars, audioVars, histVars,
                    fnVars, background_task >>

-----------------------------------------------------------------------------
(* The audio-restart sequences: stop, debounce sleep, play *)

RemoveAt(q, i) == SubSeq(q, 1, i - 1) \o SubSeq(q, i + 1, Len(q))

\* the oldest task of a kind at a point of its coroutine runs first
OldestAt(i, kind, pc) ==
    /\ i \in 1..Len(restart_tasks)
    /\ restart_tasks[i].kind = kind
    /\ restart_tasks[i].pc = pc
    /\ \A j \in 1..(i - 1) :
           ~(restart_tasks[j].kind = kind /\ restart_tasks[j].pc = pc)

\* history of a playback start by a restart sequence
PlayHistory ==
    IF recording
    THEN /\ burst' = [burst EXCEPT !.plays = Min(@ + 1, 2)]
         /\ last_play' = [pos |-> audio_position, expected |-> nav_pending]
         /\ nav_pending' = None
    ELSE UNCHANGED histVars

\* Lue._restart_audio_after_navigation up to its sleep: take the lock, cancel
\* and await the pending restart task (a task cancelling itself goes on, any
\* other pending task has not passed the lock and ends), stop the audio
RestartStop(i) ==
    /\ OldestAt(i, "A", "new")
    /\ ~audio_restart_lock
    /\ audio_restart_lock' = TRUE
    /\ restart_tasks' =
           LET mine == [restart_tasks EXCEPT ![i].pc = "stopped"]
           IN  SelectSeq(mine, LAMBDA t : ~(t.pending /\ t.pc = "new"))
    /\ StopAndClearAudio
    /\ UNCHANGED << docVars, posVars, layoutVars, termVars, scrollVars, modeVars,
                    resizeVars, flagVars, loopVars, histVars, fnVars, shutdownVars >>

\* Variant of RestartPlay: plays unless paused, whether or not the reader
\* is still running
RestartPlay_ignores_running(i) ==
    /\ OldestAt(i, "A", "stopped")
    /\ audio_restart_lock' = FALSE
    /\ restart_tasks' = RemoveAt(restart_tasks, i)
    /\ IF ~is_paused
       THEN PlayFromCurrentPosition /\ PlayHistory
       ELSE UNCHANGED << audioVars, histVars >>
    /\ UNCHANGED << docVars, posVars, layoutVars, termVars, scrollVars, modeVars,
                    resizeVars, flagVars, loopVars, fnVars, shutdownVars >>

\* Lue._restart_audio_after_navigation after its sleep: play unless paused
\* or shut down, release the lock
RestartPlay(i) ==
    /\ OldestAt(i, "A", "stopped")
    /\ audio_restart_lock' = FALSE
    /\ restart_tasks' = RemoveAt(restart_tasks, i)
    /\ IF ~is_paused /\ running
       THEN PlayFromCurrentPosition /\ PlayHistory
       ELSE UNCHANGED << audioVars, histVars >>
    /\ UNCHANGED << docVars, posVars, layoutVars, termVars, scrollVars, modeVars,
                    resizeVars, flagVars, loopVars, fnVars, shutdownVars >>

\* LueApp._handle_navigation_audio_restart up to its sleep
NavigationRestartStop(i) ==
    /\ OldestAt(i, "B", "new")
    /\ IF tts_initialized /\ ~is_paused
       THEN /\ StopAndClearAudio
            /\ restart_tasks' = [restart_tasks EXCEPT ![i].pc = "stopped"]
       ELSE /\ restart_tasks' = RemoveAt(restart_tasks, i)
            /\ UNCHANGED audioVars
    /\ UNCHANGED << docVars, posVars, layoutVars, termVars, scrollVars, modeVars,
                    resizeVars, flagVars, loopVars, audio_restart_lock, histVars,
                    fnVars, shutdownVars >>

\* LueApp._handle_navigation_audio_restart after its sleep: play
NavigationRestartPlay(i) ==
    /\ OldestAt(i, "B", "stopped")
    /\ restart_tasks' = RemoveAt(restart_tasks, i)
    /\ PlayFromCurrentPosition
    /\ PlayHistory
    /\ UNCHANGED << docVars, posVars, layoutVars, termVars, scrollVars, modeVars,
                    resizeVars, flagVars, loopVars, audio_restart_lock, fnVars, shutdownVars >>

\* Lue._restart_audio_after_navigation, the audio engine raises in
\* play_from_current_position: nothing catches the exception, the lock
\* section is left and the task ends with it
RestartPlayRaises(i) ==
    /\ OldestAt(i, "A", "stopped")
    /\ ~is_paused /\ running
    /\ audio_restart_lock' = FALSE
    /\ restart_tasks' = RemoveAt(restart_tasks, i)
    /\ AudioRaises
    /\ UNCHANGED << docVars, posVars, layoutVars, termVars, scrollVars, modeVars,
                    resizeVars, flagVars, loopVars, histVars, fnVars,
                    shutdownVars >>

\* LueApp._handle_navigation_audio_restart, the audio engine raises in
\* stop_and_clear_audio: except Exception: pass
NavigationRestartStopRaises(i) ==
    /\ OldestAt(i, "B", "new")
    /\ tts_initialized /\ ~is_paused
    /\ restart_tasks' = RemoveAt(restart_tasks, i)
    /\ AudioRaises
    /\ UNCHANGED << docVars, posVars, layoutVars, termVars, scrollVars, modeVars,
                    resizeVars, flagVars, loopVars, audio_restart_lock, histVars,
                    fnVars, shutdownVars >>

\* LueApp._handle_navigation_audio_restart, the audio engine raises in
\* play_from_current_position: except Exception: pass
NavigationRestartPlayRaises(i) ==
    /\ OldestAt(i, "B", "stopped")
    /\ restart_tasks' = RemoveAt(restart_tasks, i)
    /\ AudioRaises
    /\ UNCHANGED << docVars, posVars, layoutVars, termVars, scrollVars, modeVars,
                    resizeVars, flagVars, loopVars, audio_restart_lock, histVars,
                    fnVars, shutdownVars >>

-----------------------------------------------------------------------------
(* The navigation functions on their own: a call and its result *)

Modes == {"sentence", "paragraph"}

\* Lue._advance_position(current_pos, mode, wrap)
CallAdvance(pos, mode, wrap) ==
    /\ fn_in' = Call("advance", pos, mode, wrap)
    /\ fn_out' = advance_position(pos, mode, wrap)
    /\ UNCHANGED << docVars, posVars, layoutVars, termVars, scrollVars, modeVars,
                    resizeVars, flagVars, loopVars, restartVars, audioVars,
                    histVars, scroll_in, scroll_out, split_in, split_out,
                    shutdownVars >>

\* Lue._rewind_position(current_pos, mode)
CallRewind(pos, mode) ==
    /\ fn_in' = Call("rewind", pos, mode, TRUE)
    /\ fn_out' = rewind_position(pos, mode)
    /\ UNCHANGED << docVars, posVars, layoutVars, termVars, scrollVars, modeVars,
                    resizeVars, flagVars, loopVars, restartVars, audioVars,
                    histVars, scroll_in, scroll_out, split_in, split_out,
                    shutdownVars >>

\* Lue._rewind_position(Lue._advance_position(current_pos, mode), mode)
CallRoundTrip(pos, mode) ==
    /\ fn_in' = Call("round_trip", pos, mode, TRUE)
    /\ fn_out' = rewind_position(advance_position(pos, mode, TRUE), mode)
    /\ UNCHANGED << docVars, posVars, layoutVars, termVars, scrollVars, modeVars,
                    resizeVars, flagVars, loopVars, restartVars, audioVars,
                    histVars, scroll_in, scroll_out, split_in, split_out,
                    shutdownVars >>

\* Inputs of the page scroll: terminal heights (viewports of 6 and 20 lines),
\* grid lengths and offsets before the scroll, whole and fractional
PageHeights == {10, 24}
PageTotals == {3, 18, 100}
PageOffsets == { Units(l) : l \in {0, 2, 5, 12, 17, 60, 79, 80, 90, 99} }
                   \cup {50, 1250}

\* scroll_page_down (direction 1) or scroll_page_up (direction -1) on a
\* reader with the given offset, grid length and terminal height
CallPageScroll(direction, offset, total_lines, height) ==
    /\ scroll_in' = ScrollCall(direction, offset, total_lines, height)
    /\ scroll_out' = page_scroll_offset(direction, offset, total_lines, height)
    /\ UNCHANGED << docVars, posVars, layoutVars, termVars, scrollVars, modeVars,
                    resizeVars, flagVars, loopVars, restartVars, audioVars,
                    histVars, fn_in, fn_out, split_in, split_out,
                    shutdownVars >>

\* Inputs of the sentence splitter: every text of at most MaxTextLen
\* characters of SplitAlphabet, and the texts of the examples
SplitAlphabet == {"D", "r", "K", ".", " "}

ShortTexts == UNION { [1..n -> SplitAlphabet] : n \in 0..MaxTextLen }

TextDrSmith ==
    << "D", "r", ".", " ", "S", "m", "i", "t", "h", " ", "m", "e", "t",
       " ", "M", "r", "s", ".", " ", "J", "o", "n", "e", "s", "." >>

TextRowling ==
    << "H", "e", " ", "s", "a", "i", "d", " ", "J", ".", " ", "K", ".",
       " ", "R", "o", "w", "l", "i", "n", "g", " ", "w", "r", "o", "t",
       "e", " ", "i", "t", "." >>

TextSeveralSentences ==
    << "D", "r", ".", " ", "S", "m", "i", "t", "h", " ", "m", "e", "t",
       " ", "M", "r", "s", ".", " ", "J", "o", "n", "e", "s", ".", " ",
       "J", ".", " ", "K", ".", " ", "R", "o", "w", "l", "i", "n", "g",
       " ", "w", "r", "o", "t", "e", " ", "i", "t", "!", " ", " ", "E",
       "t", "c", ".", " ", "a", "n", "d", " ", "s", "o", " ", "o", "n",
       "?", " ", "y", "e", "s" >>

ExampleTexts == {TextDrSmith, TextRowling, TextSeveralSentences}

\* content_parser.split_into_sentences(paragraph); the function keeps no
\* state, so one call per behaviour shows all it does
CallSplit(paragraph) ==
    /\ split_in = NoSplitCall
    /\ split_in' = SplitCall(paragraph)
    /\ split_out' = split_paragraph_text(paragraph)
    /\ UNCHANGED << docVars, posVars, layoutVars, termVars, scrollVars, modeVars,
                    resizeVars, flagVars, loopVars, restartVars, audioVars,
                    histVars, fn_in, fn_out, scroll_in, scroll_out,
                    shutdownVars >>

-----------------------------------------------------------------------------
(* The reader as a whole *)

ClickColumns == {5, 14}
ClickRows == {3, 5}

\* The Textual application with playback paused and TTS not initialised:
\* the view (position, layout, scroll) under LueApp's actions
NextView ==
    \/ ServicesLayout
    \/ \E cmd \in NavCommands : ActionNavigate(cmd)
    \/ ActionScrollUp
    \/ ActionScrollDown
    \/ ActionScrollPageUp
    \/ ActionScrollPageDown
    \/ ActionMoveToBeginning
    \/ ActionMoveToEnd
    \/ ActionMoveToTopVisible
    \/ ActionToggleAutoScroll
    \/ \E chapter_idx \in 0..(NumChapters - 1) : SelectChapter(chapter_idx)
    \/ \E width \in TermWidths, height \in TermHeights : TerminalResize(width, height)

\* The Textual application with TTS: navigation, the audio engine and the
\* restart sequences
NextPlayback ==
    \/ ServicesLayout
    \/ ServicesTTS
    \/ \E cmd \in NavCommands : ActionNavigate(cmd)
    \/ ActionMoveToTopVisible
    \/ ActionPause
    \/ \E chapter_idx \in 0..(NumChapters - 1) : SelectChapter(chapter_idx)
    \/ HighlightAdvance
    \/ \E i \in 1..MaxTasks : RestartStop(i)
    \/ \E i \in 1..MaxTasks : RestartPlay(i)
    \/ \E i \in 1..MaxTasks : NavigationRestartStop(i)
    \/ \E i \in 1..MaxTasks : NavigationRestartPlay(i)

\* The same while no sentence ends: navigation and the restart sequences
NextRestart ==
    \/ ServicesLayout
    \/ ServicesTTS
    \/ \E cmd \in NavCommands : ActionNavigate(cmd)
    \/ ActionMoveToTopVisible
    \/ ActionPause
    \/ \E chapter_idx \in 0..(NumChapters - 1) : SelectChapter(chapter_idx)
    \/ \E i \in 1..MaxTasks : RestartStop(i)
    \/ \E i \in 1..MaxTasks : RestartPlay(i)
    \/ \E i \in 1..MaxTasks : NavigationRestartStop(i)
    \/ \E i \in 1..MaxTasks : NavigationRestartPlay(i)

\* The command loop: Lue.run with its input source and background task
NextLoop ==
    \/ Run
    \/ \E click_x \in ClickColumns, click_y \in ClickRows : PostClickJump(click_x, click_y)
    \/ ConsumeCommand
    \/ BackgroundTick
    \/ AnimateScroll
    \/ HighlightAdvance
    \/ \E i \in 1..MaxTasks : RestartStop(i)
    \/ \E i \in 1..MaxTasks : RestartPlay(i)

\* A resize in manual mode under Lue.run, and the layout rebuild of
\* _initialize_services
NextResize ==
    \/ Run
    \/ \E width \in TermWidths, height \in TermHeights : TerminalResize(width, height)
    \/ ConsumeCommand
    \/ BackgroundTick
    \/ HighlightAdvance
    \/ ServicesLayout

\* Every operation that sets the position, of either front end
NextPositions ==
    \/ ServicesLayout
    \/ ServicesTTS
    \/ \E i \in 1..MaxTasks : NavigationRestartStop(i)
    \/ \E i \in 1..MaxTasks : NavigationRestartPlay(i)
    \/ \E cmd \in NavCommands : ActionNavigate(cmd)
    \/ ActionMoveToTopVisible
    \/ \E chapter_idx \in 0..(NumChapters - 1) : SelectChapter(chapter_idx)
    \/ HighlightAdvance
    \/ \E i \in 1..MaxTasks : RestartStop(i)
    \/ \E i \in 1..MaxTasks : RestartPlay(i)
    \/ Run
    \/ \E click_x \in ClickColumns, click_y \in ClickRows : PostClickJump(click_x, click_y)
    \/ ConsumeCommand
    \/ BackgroundTick

\* Layout builds: the terminal changes and the grid is rebuilt for it
NextLayout ==
    \/ \E width \in TermWidths, height \in TermHeights : TerminalResize(width, height)
    \/ ServicesLayout

\* Calls of the navigation functions
NextNav ==
    \/ \E pos \in Positions, mode \in Modes, wrap \in BOOLEAN : CallAdvance(pos, mode, wrap)
    \/ \E pos \in Positions, mode \in Modes : CallRewind(pos, mode)
    \/ \E pos \in Positions, mode \in Modes : CallRoundTrip(pos, mode)

\* Lue.run from start to exit: clicks, playback, the exit signal and the
\* shutdown
NextShutdown ==
    \/ Run
    \/ \E click_x \in ClickColumns, click_y \in ClickRows : PostClickJump(click_x, click_y)
    \/ ConsumeCommand
    \/ BackgroundTick
    \/ AnimateScroll
    \/ HighlightAdvance
    \/ \E i \in 1..MaxTasks : RestartStop(i)
    \/ \E i \in 1..MaxTasks : RestartPlay(i)
    \/ HandleExitSignal
    \/ ShutdownCancelScroll
    \/ ShutdownCancelBackground
    \/ ShutdownCancelPending
    \/ ShutdownStopAudio
    \/ ShutdownSaveProgress

\* Lue.run while the audio advances through the book: the background sync,
\* the scroll animation it starts, and resizes of the terminal
NextScroll ==
    \/ Run
    \/ \E width \in TermWidths, height \in TermHeights : TerminalResize(width, height)
    \/ ConsumeCommand
    \/ BackgroundTick
    \/ AnimateScroll
    \/ HighlightAdvance

\* Navigation and restart sequences with an audio engine that can raise
NextFailure ==
    \/ ServicesLayout
    \/ ServicesTTS
    \/ \E cmd \in NavCommands : ActionNavigate(cmd)
    \/ ActionMoveToTopVisible
    \/ ActionPause
    \/ \E i \in 1..MaxTasks : RestartStop(i)
    \/ \E i \in 1..MaxTasks : RestartPlay(i)
    \/ \E i \in 1..MaxTasks : RestartPlayRaises(i)
    \/ \E i \in 1..MaxTasks : NavigationRestartStop(i)
    \/ \E i \in 1..MaxTasks : NavigationRestartStopRaises(i)
    \/ \E i \in 1..MaxTasks : NavigationRestartPlay(i)
    \/ \E i \in 1..MaxTasks : NavigationRestartPlayRaises(i)

\* Calls of the sentence splitter
NextSplit ==
    \E paragraph \in ShortTexts \cup ExampleTexts : CallSplit(paragraph)

\* The command loop with a progress file that cannot always be written
NextCrash ==
    \/ Run
    \/ \E click_x \in ClickColumns, click_y \in ClickRows : PostClickJump(click_x, click_y)
    \/ ConsumeCommand
    \/ ConsumeCommandRaises
    \/ BackgroundTick
    \/ AnimateScroll
    \/ HighlightAdvance
    \/ \E i \in 1..MaxTasks : RestartStop(i)
    \/ \E i \in 1..MaxTasks : RestartPlay(i)

\* Start-up of either front end, and the navigation commands
NextStart ==
    \/ Run
    \/ ServicesLayout
    \/ ServicesTTS
    \/ \E cmd \in NavCommands : ActionNavigate(cmd)
    \/ \E i \in 1..MaxTasks : NavigationRestartStop(i)
    \/ \E i \in 1..MaxTasks : NavigationRestartPlay(i)

\* Calls of the page scroll
NextPageScroll ==
    \E direction \in {-1, 1}, offset \in PageOffsets, total_lines \in PageTotals,
       height \in PageHeights :
        CallPageScroll(direction, offset, total_lines, height)

\* Both front ends with the pause key: every operation that sets the
\* position, while playback is paused and resumed
NextPaused ==
    \/ NextPositions
    \/ ActionPause

\* The engine of Lue.run (command loop, background sync, scroll animation,
\* audio advance) with the immediate handlers of the viewport and
\* navigation keys and the pause key
NextManual ==
    \/ Run
    \/ ConsumeCommand
    \/ BackgroundTick
    \/ AnimateScroll
    \/ HighlightAdvance
    \/ ActionScrollUp
    \/ ActionScrollDown
    \/ ActionScrollPageUp
    \/ ActionScrollPageDown
    \/ ActionMoveToBeginning
    \/ ActionMoveToEnd
    \/ \E cmd \in NavCommands : ActionNavigate(cmd)
    \/ ActionPause

\* Chapter indexes passed to jump_to_chapter: the chapters, and one index
\* on either side of them
JumpIndexes == -1..NumChapters

\* Calls of jump_to_chapter between navigation and scroll keys
NextJump ==
    \/ \E chapter_idx \in JumpIndexes : JumpToChapter(chapter_idx)
    \/ \E cmd \in NavCommands : ActionNavigate(cmd)
    \/ ActionScrollDown
    \/ ActionToggleAutoScroll

\* Sessions of the reader: viewport and navigation keys that save the
\* progress with its anchor, and the book closed and opened again
NextReload ==
    \/ Reload
    \/ ActionScrollPageUp
    \/ ActionScrollPageDown
    \/ ActionMoveToBeginning
    \/ ActionMoveToEnd
    \/ \E cmd \in NavCommands : ActionNavigate(cmd)

HitColumns == {5, 25, 34}
HitRows == {2, 3, 4, 5, 6}

\* Clicks on the text under Lue.run, consumed by the command loop
NextClick ==
    \/ Run
    \/ \E click_x \in HitColumns, click_y \in HitRows : PostClickJump(click_x, click_y)
    \/ ConsumeCommand

Next == NextView \/ NextPlayback \/ NextRestart \/ NextLoop \/ NextResize \/ NextPositions
            \/ NextLayout \/ NextNav \/ NextPageScroll \/ NextShutdown
            \/ NextStart \/ NextFailure \/ NextCrash \/ NextSplit \/ NextScroll
            \/ NextClick \/ NextPaused \/ NextManual \/ NextJump \/ NextReload

Spec == Init /\ [][Next]_vars

InitView ==
    /\ InitReader({DocLong}, TermWidths, TermHeights)
    /\ is_paused
    /\ ~recording

SpecView == InitView /\ [][NextView]_vars

InitPlayback ==
    /\ InitReader({DocTwoChapters}, {50}, {12})
    /\ auto_scroll_enabled
    /\ recording

SpecPlayback == InitPlayback /\ [][NextPlayback]_vars

SpecRestart == InitPlayback /\ [][NextRestart]_vars

InitLoop ==
    /\ InitReader({DocTwoChapters}, {50}, {12})
    /\ ~is_paused
    /\ recording

SpecLoop == InitLoop /\ [][NextLoop]_vars

InitResize ==
    /\ InitReader({DocLong}, TermWidths, TermHeights)
    /\ ~is_paused
    /\ ~auto_scroll_enabled
    /\ recording

SpecResize == InitResize /\ [][NextResize]_vars

InitPositions ==
    /\ InitReader({DocTwoChapters}, {50}, {12})
    /\ auto_scroll_enabled
    /\ ~is_paused
    /\ ~recording

SpecPositions == InitPositions /\ [][NextPositions]_vars

InitLayout ==
    /\ InitReader(LayoutDocs, TermWidths, TermHeights)
    /\ is_paused
    /\ ~auto_scroll_enabled
    /\ ~recording

SpecLayout == InitLayout /\ [][NextLayout]_vars

InitNav ==
    /\ InitReader(NavDocs, {50}, {12})
    /\ is_paused
    /\ auto_scroll_enabled
    /\ ~recording

SpecNav == InitNav /\ [][NextNav]_vars

InitShutdown ==
    /\ InitReader({DocTwoChapters}, {50}, {12})
    /\ ~is_paused
    /\ auto_scroll_enabled
    /\ ~recording

SpecShutdown == InitShutdown /\ [][NextShutdown]_vars

\* Lue.run on a document longer than the viewport, auto-scroll on or off
InitScroll ==
    /\ InitReader({DocLong, DocTall}, {50}, {12})
    /\ ~is_paused
    /\ ~recording

SpecScroll == InitScroll /\ [][NextScroll]_vars

\* Lue.run from start to exit, paused or not, auto-scroll on or off
InitSync ==
    /\ InitReader({DocTwoChapters}, {50}, {12})
    /\ ~recording

\* The background task sleeps ui_update_interval between two passes of its
\* loop and the event loop runs every task that is ready: a pass that has
\* work is not postponed for ever
SpecSync == InitSync /\ [][NextShutdown]_vars /\ WF_vars(BackgroundTick)

InitFailure ==
    /\ InitReader({DocTwoChapters}, {50}, {12})
    /\ ~is_paused
    /\ auto_scroll_enabled
    /\ ~recording

SpecFailure == InitFailure /\ [][NextFailure]_vars

InitSplit ==
    /\ InitReader({DocTwoChapters}, {50}, {12})
    /\ is_paused
    /\ auto_scroll_enabled
    /\ ~recording

SpecSplit == InitSplit /\ [][NextSplit]_vars

InitCrash ==
    /\ InitReader({DocTwoChapters}, {50}, {12})
    /\ ~is_paused
    /\ auto_scroll_enabled
    /\ ~recording

SpecCrash == InitCrash /\ [][NextCrash]_vars

InitStart ==
    /\ InitReader(EmptyDocs \cup {DocTwoChapters}, {50}, {12})
    /\ auto_scroll_enabled
    /\ recording

SpecStart == InitStart /\ [][NextStart]_vars

InitPageScroll ==
    /\ InitReader({DocTwoChapters}, {50}, {12})
    /\ is_paused
    /\ auto_scroll_enabled
    /\ ~recording

SpecPageScroll == InitPageScroll /\ [][NextPageScroll]_vars

InitPaused ==
    /\ InitReader({DocTwoChapters}, {50}, {12})
    /\ auto_scroll_enabled
    /\ ~recording

SpecPaused == InitPaused /\ [][NextPaused]_vars

InitManual ==
    /\ InitReader({DocLong, DocTall}, {50}, {12})
    /\ ~is_paused
    /\ ~recording

SpecManual == InitManual /\ [][NextManual]_vars

InitJump ==
    /\ InitReader({DocLong, DocTwoChapters}, TermWidths, TermHeights)
    /\ is_paused
    /\ ~recording

SpecJump == InitJump /\ [][NextJump]_vars

InitReload ==
    /\ InitReader({DocLong, DocTall}, {50}, TermHeights)
    /\ is_paused
    /\ ~recording

SpecReload == InitReload /\ [][NextReload]_vars

InitClick ==
    /\ InitReader({DocLong, DocTwoChapters}, {50}, {12})
    /\ ~is_paused
    /\ ~recording

SpecClick == InitClick /\ [][NextClick]_vars

-----------------------------------------------------------------------------
(* Properties of the scroll offset *)

\* C1: after any sequence of navigation, manual scroll, chapter-jump,
\* layout rebuild and animation steps, the scroll offset lies in
\* [0, max(0, total_lines - viewport_height)], for the grid of the terminal
\* as it is (checked in the states whose grid was built for that terminal)
C1_OffsetInScrollRange ==
    ~stale_view =>
        (0 <= scroll_offset /\ scroll_offset <= Units(MaxScrollLines))

-----------------------------------------------------------------------------
(* Properties of the audio restart *)

\* C2: two position-changing commands, the second issued before the restart
\* of the first has started playback, start the engine once, and at the
\* position set by the second
C2_OneStartPerBurst ==
    burst.navs = 2 =>
        /\ burst.plays <= 1
        /\ burst.plays = 1 => last_play.pos = last_play.expected

\* C8: a restart after a position-changing command starts playback from the
\* position that command set; a highlight-advance of the earlier playback
\* does not replace it first
C8_RestartPlaysNavigatedPosition ==
    last_play.expected # None => last_play.pos = last_play.expected

\* C9: at most one restart sequence is between its stop and its play
C9_OneRestartInProgress ==
    Cardinality({ i \in DOMAIN restart_tasks : restart_tasks[i].pc = "stopped" }) <= 1

-----------------------------------------------------------------------------
(* Properties of the command loop *)

\* C3: every posted command is consumed once and in order: no post replaces
\* a command the loop has not yet taken out of the slot
C3_NoCommandOverwritten == overwritten = NoCommand

-----------------------------------------------------------------------------
(* Properties of the positions *)

\* C4: after every operation both the audio position and the display
\* position are valid triples of the document; a wraparound ends on (0,0,0)
\* or on the last position within the step
C4_PositionsValid ==
    /\ ValidPosition(audio_position)
    /\ ValidPosition(display_position)

\* C4, its case: a command has moved both positions to the last triple of
\* the document and its restart has not played yet
C4_MovedToLastPosition ==
    /\ audio_position = LastPosition
    /\ display_position = LastPosition
    /\ restart_tasks # << >>

\* pos is interior for mode: advancing does not run off the end of the
\* document and a rewind of pos would not run off its start
Interior(pos, mode) ==
    /\ advance_position(pos, mode, FALSE) # None
    /\ IF mode = "paragraph" THEN <<pos[1], pos[2]>> # <<0, 0>>
       ELSE pos # <<0, 0, 0>>

\* C5 as stated: for every interior position and either mode,
\* rewind(advance(pos, mode, wrap=true), mode) = pos
C5_RoundTripIsIdentity ==
    (fn_in.op = "round_trip" /\ Interior(fn_in.pos, fn_in.mode))
        => fn_out = fn_in.pos

\* C5, amended: for every interior position the round trip returns pos in
\* sentence mode, and sentence 0 of the paragraph of pos in paragraph mode
C5_RoundTrip ==
    (fn_in.op = "round_trip" /\ Interior(fn_in.pos, fn_in.mode))
        => fn_out = IF fn_in.mode = "paragraph"
                    THEN <<fn_in.pos[1], fn_in.pos[2], 0>>
                    ELSE fn_in.pos

\* C5, its case: a paragraph-mode round trip from an interior position that
\* is not at sentence 0
C5_ParagraphRoundTripFromLaterSentence ==
    /\ fn_in.op = "round_trip"
    /\ fn_in.mode = "paragraph"
    /\ Interior(fn_in.pos, fn_in.mode)
    /\ fn_in.pos[3] > 0
    /\ fn_out = <<fn_in.pos[1], fn_in.pos[2], 0>>

\* the successor of pos in document order, or NoPos at the last position
SentenceSuccessor(pos) ==
    LET c == pos[1]
        p == pos[2]
        s == pos[3]
    IN  IF s + 1 < NumSentences(c, p) THEN <<c, p, s + 1>>
        ELSE IF p + 1 < NumParagraphs(c) THEN <<c, p + 1, 0>>
        ELSE IF c + 1 < NumChapters THEN <<c + 1, 0, 0>>
        ELSE NoPos

\* chapters [[one paragraph of 3 sentences], [one paragraph of 1 sentence]]
ExampleDoc ==
    << << << <<1>>, <<1>>, <<1>> >> >>,
       << << <<1>> >> >> >>

\* C10: in sentence mode advance returns the successor in document order:
\* (c,p,s+1), else sentence 0 of the next paragraph, else sentence 0 of the
\* first paragraph of the next chapter; in the example document
\* advance((0,0,2)) = (1,0,0) and advance((1,0,0)) = (0,0,0) with wrap
C10_SentenceAdvance ==
    (fn_in.op = "advance" /\ fn_in.mode = "sentence") =>
        /\ SentenceSuccessor(fn_in.pos) # NoPos
               => fn_out = SentenceSuccessor(fn_in.pos)
        /\ (chapters = ExampleDoc /\ fn_in.wrap /\ fn_in.pos = <<0, 0, 2>>)
               => fn_out = <<1, 0, 0>>
        /\ (chapters = ExampleDoc /\ fn_in.wrap /\ fn_in.pos = <<1, 0, 0>>)
               => fn_out = <<0, 0, 0>>

\* C10, its case: the example document, advance from the last sentence of
\* chapter 0 into chapter 1
C10_AdvanceIntoNextChapter ==
    /\ chapters = ExampleDoc
    /\ fn_in = Call("advance", <<0, 0, 2>>, "sentence", TRUE)
    /\ fn_out = <<1, 0, 0>>

-----------------------------------------------------------------------------
(* Properties of the layout *)

\* C6: after every layout build every position of the document has an
\* entry in position_to_line, within [0, total_lines), and the line's entry
\* in line_to_position has the chapter and paragraph of the position
C6_EveryPositionHasLine ==
    \A pos \in Positions :
        /\ pos \in DOMAIN position_to_line
        /\ 0 <= position_to_line[pos]
        /\ position_to_line[pos] < TotalLines
        /\ position_to_line[pos] \in DOMAIN line_to_position
        /\ line_to_position[position_to_line[pos]][1] = pos[1]
        /\ line_to_position[position_to_line[pos]][2] = pos[2]

\* C7: a rebuild in manual mode with a ResizeAnchor captured puts the
\* anchor sentence at its captured fraction of the new viewport, within one
\* line: |(anchor_line - offset) - fraction * viewport_height| <= 1
C7_ResizeKeepsFraction ==
    [][(/\ services_pc = "start"
        /\ services_pc' = "tts"
        /\ ~auto_scroll_enabled
        /\ resize_anchor # None
        /\ resize_anchor[1] \in DOMAIN position_to_line')
       => Abs((Units(position_to_line'[resize_anchor[1]]) - scroll_offset')
                  * resize_anchor[2].den
              - resize_anchor[2].num * Units(AvailableHeight))
          <= Scale * resize_anchor[2].den]_vars

-----------------------------------------------------------------------------
(* Properties of the navigation functions at the ends of the document *)

\* pos is at the end of the document for mode: the last sentence in
\* sentence mode, any sentence of the last paragraph in paragraph mode
AtDocumentEnd(pos, mode) ==
    IF mode = "paragraph"
    THEN <<pos[1], pos[2]>> = <<LastPosition[1], LastPosition[2]>>
    ELSE pos = LastPosition

\* C11: advance from the end of the document returns (0,0,0) when wrap is
\* true and the "no further content" sentinel (None) when wrap is false
C11_AdvanceAtDocumentEnd ==
    (fn_in.op = "advance" /\ AtDocumentEnd(fn_in.pos, fn_in.mode))
        => fn_out = IF fn_in.wrap THEN <<0, 0, 0>> ELSE None

\* C11, its case: a paragraph-mode advance without wrap from a later
\* sentence of the last paragraph has returned the sentinel
C11_SentinelFromLastParagraph ==
    /\ fn_in.op = "advance"
    /\ fn_in.mode = "paragraph"
    /\ ~fn_in.wrap
    /\ AtDocumentEnd(fn_in.pos, fn_in.mode)
    /\ fn_in.pos[3] > 0
    /\ fn_out = None

\* pos has no predecessor for mode: the first sentence in sentence mode,
\* any sentence of the first paragraph in paragraph mode
AtDocumentStart(pos, mode) ==
    IF mode = "paragraph" THEN <<pos[1], pos[2]>> = <<0, 0>>
    ELSE pos = <<0, 0, 0>>

\* C12: rewind from a position without predecessor returns the last sentence
\* of the last paragraph of the last chapter; in the example document
\* rewind((0,0,0), sentence) = (1,0,0)
C12_RewindWrapsToLast ==
    fn_in.op = "rewind" =>
        /\ AtDocumentStart(fn_in.pos, fn_in.mode) => fn_out = LastPosition
        /\ (chapters = ExampleDoc /\ fn_in.mode = "sentence"
                /\ fn_in.pos = <<0, 0, 0>>) => fn_out = <<1, 0, 0>>

\* C12, its case: a paragraph-mode rewind from a later sentence of the first
\* paragraph has wrapped to a last sentence that is not sentence 0
C12_ParagraphRewindWraps ==
    /\ fn_in.op = "rewind"
    /\ fn_in.mode = "paragraph"
    /\ AtDocumentStart(fn_in.pos, fn_in.mode)
    /\ fn_in.pos[3] > 0
    /\ fn_out = LastPosition
    /\ fn_out[3] > 0

-----------------------------------------------------------------------------
(* Properties of the page scroll *)

\* C13: page-down sets the offset to min(max_scroll, offset + viewport
\* height) and page-up to max(0, offset - viewport height), with max_scroll =
\* max(0, total_lines - viewport height); page-down never ends beyond
\* max_scroll: with a viewport of 20 lines, 100 lines and offset 90 it
\* gives 80
C13_PageScrollClamped ==
    LET viewport == Units(Max(1, scroll_in.height - 4))
        max_scroll == Max(0, Units(scroll_in.total_lines) - viewport)
        down == scroll_in.offset + viewport
        up == scroll_in.offset - viewport
    IN  /\ scroll_in.direction = 1 =>
               /\ down <= max_scroll => scroll_out = down
               /\ down > max_scroll => scroll_out = max_scroll
               /\ scroll_out <= max_scroll
        /\ scroll_in.direction = -1 =>
               /\ up >= 0 => scroll_out = up
               /\ up < 0 => scroll_out = 0
               /\ scroll_in.offset <= max_scroll => scroll_out <= max_scroll
        /\ scroll_in = ScrollCall(1, Units(90), 100, 24) => scroll_out = Units(80)

\* C13, its case: page-down from offset 90 of 100 lines with a viewport of
\* 20 lines has given offset 80
C13_PageDownFromBeyondMaxScroll ==
    /\ scroll_in = ScrollCall(1, Units(90), 100, 24)
    /\ scroll_out = Units(80)

-----------------------------------------------------------------------------
(* Properties of the shutdown *)

\* C14: in the shutdown the scroll animation, the background task and the
\* pending restart task are each cancelled before the audio engine is
\* stopped, none of them is alive once it is stopped, and the final progress
\* is saved after the audio engine has been stopped
C14_ShutdownOrder ==
    LET log == shutdown_log
        stops == { j \in 1..Len(log) : log[j] = "stop_audio" }
        cancels == { i \in 1..Len(log) :
                       log[i] \in {"cancel_scroll", "cancel_background",
                                   "cancel_pending"} }
    IN  /\ \A i \in cancels, j \in stops : i < j
        /\ stops # {} =>
               /\ ~TaskActive(smooth_scroll_task)
               /\ background_task # "running"
               /\ \A i \in 1..Len(restart_tasks) : ~restart_tasks[i].pending
        /\ run_state = "done" =>
               /\ stops # {}
               /\ log[Len(log)] = "save_progress"
               /\ \A j \in stops : j < Len(log)

\* C14, its case: a shutdown that found all three tasks alive has run to
\* its end
C14_AllTasksCancelledThenSaved ==
    /\ run_state = "done"
    /\ \A e \in {"cancel_scroll", "cancel_background", "cancel_pending"} :
           \E i \in 1..Len(shutdown_log) : shutdown_log[i] = e

-----------------------------------------------------------------------------
(* Properties of the resize *)

\* C15: a terminal resize is followed by a rebuild of the line grid and the
\* position maps for the new width: when the command loop has handled the
\* '_resize' command of a resize, the grid and the maps are those built for
\* the width the terminal has now
C15_HandledResizeRebuilds ==
    [][ (run_state = "loop" /\ command.name = "_resize" /\ command' = NoCommand)
        => LET lay == BuildLayout(Max(20, term_width' - 10))
           IN  /\ document_lines' = lay.document_lines
               /\ position_to_line' = lay.position_to_line
               /\ line_to_position' = lay.line_to_position
               /\ paragraph_line_ranges' = lay.paragraph_line_ranges ]_vars

-----------------------------------------------------------------------------
(* Properties of the start-up *)

EmptyDocument ==
    chapters = << >> \/ \E c \in 1..Len(chapters) : chapters[c] = << >>

\* C16: on a document without chapters or with an empty chapter the core
\* does not start: the background task and the audio playback are not
\* started and no navigation is performed
C16_EmptyDocumentNotStarted ==
    EmptyDocument =>
        /\ run_state # "loop"
        /\ background_task # "running"
        /\ ~audio_playing
        /\ burst.navs = 0

-----------------------------------------------------------------------------
(* Properties of the failures *)

\* C17: when the audio engine raises during a restart after a navigation,
\* the position stays at the navigated position and playback is left paused
\* (is_paused is true after the failure)
C17_RestartFailureContained ==
    [][ (~audio_raised /\ audio_raised')
        => /\ audio_position' = audio_position
           /\ display_position' = display_position
           /\ is_paused' ]_vars

\* C18: an exception raised while one command is handled does not end the
\* command loop: after it the loop is still there to take the next command
C18_LoopSurvivesException ==
    (\E i \in 1..Len(shutdown_log) : shutdown_log[i] = "exception")
        => run_state = "loop"

-----------------------------------------------------------------------------
(* Properties of the sentence splitter *)

\* C19: the splitter returns at least one sentence for every paragraph; for
\* the empty string it returns the paragraph itself as the only sentence
C19_SplitNeverEmpty ==
    split_in.op = "split" =>
        /\ Len(split_out) >= 1
        /\ split_in.paragraph = << >> => split_out = << << >> >>

\* C19, its case: the splitter has been called on the empty string and has
\* returned it as the only sentence
C19_EmptyParagraphOneSentence ==
    /\ split_in = SplitCall(<< >>)
    /\ split_out = << << >> >>

\* the characters at j and j + 1 of text are in one sentence of sentences
KeptTogether(text, sentences, j) ==
    \E k \in 1..Len(sentences), first \in 1..j :
        LET last == first + Len(sentences[k]) - 1
        IN  /\ j + 1 <= last
            /\ last <= Len(text)
            /\ SubSeq(text, first, last) = sentences[k]

\* the period at j is the period of a listed abbreviation, or of a single
\* capital initial followed by a space and another capital letter
ProtectedPeriod(text, j) ==
    AbbreviationPeriod(text, j) \/ InitialPeriod(text, j)

\* C20 as stated: a period after a listed abbreviation or after a single
\* capital initial followed by a space and a capital letter is never a
\* sentence boundary; "Dr. Smith met Mrs. Jones." splits into exactly two
\* sentences; "He said J. K. Rowling wrote it." is not split at its initials
C20_ProtectedPeriodsTwoSentences ==
    split_in.op = "split" =>
        LET text == split_in.paragraph
        IN  /\ \A j \in 1..(Len(text) - 1) :
                   ProtectedPeriod(text, j) => KeptTogether(text, split_out, j)
            /\ text = TextDrSmith => Len(split_out) = 2
            /\ text = TextRowling => split_out = << TextRowling >>

\* C20, amended: the same, with "Dr. Smith met Mrs. Jones." returned as one
\* sentence, split neither at "Dr." nor at "Mrs."
C20_ProtectedPeriodsKept ==
    split_in.op = "split" =>
        LET text == split_in.paragraph
        IN  /\ \A j \in 1..(Len(text) - 1) :
                   ProtectedPeriod(text, j) => KeptTogether(text, split_out, j)
            /\ text = TextDrSmith => split_out = << TextDrSmith >>
            /\ text = TextRowling => split_out = << TextRowling >>

\* C20, its case: the splitter has been called on the text with the two
\* initials and has returned it whole
C20_InitialsNotSplit ==
    /\ split_in = SplitCall(TextRowling)
    /\ split_out = << TextRowling >>

-----------------------------------------------------------------------------
(* Properties of the restart sequences and the pause flag *)

\* a restart sequence, of either front end, ends its debounce wait and
\* starts playback in this step
RestartStartsPlayback ==
    /\ \E i \in 1..MaxTasks : RestartPlay(i) \/ NavigationRestartPlay(i)
    /\ audio_playing'

\* C21: a position-changing command made while is_paused is true leaves no
\* audio playing, and a restart sequence starts playback after its debounce
\* wait only if the reader is unpaused and running at that moment
C21_RestartPlaysOnlyUnpaused ==
    [][ /\ (is_paused /\ \E cmd \in NavCommands : ActionNavigate(cmd))
            => ~audio_playing'
        /\ RestartStartsPlayback => (~is_paused /\ running) ]_vars

-----------------------------------------------------------------------------
(* Properties of the background sync *)

\* C23: a pass of the background sync that finds audio_position different
\* from display_position sets display_position to audio_position, and while
\* playback is unpaused and the reader is running a difference between the
\* two leads to their being equal (or to a pause or the shutdown)
C23_DisplayFollowsAudio ==
    /\ [][BackgroundTick => display_position' = audio_position']_vars
    /\ (running /\ ~is_paused /\ audio_position # display_position)
           ~> (display_position = audio_position \/ is_paused \/ ~running)

\* C23, its case: the audio has advanced with nobody clicking (auto-scroll
\* is still on) and the display position has caught up with it
C23_DisplayCaughtUp ==
    /\ running
    /\ ~is_paused
    /\ auto_scroll_enabled
    /\ audio_position # <<0, 0, 0>>
    /\ display_position = audio_position

\* a step of an audio-driven position advance under Lue.run: the engine
\* reports the next sentence, the command loop takes the report, or the
\* background sync moves the display position
AudioDrivenAdvance ==
    \/ HighlightAdvance
    \/ command.name = "_update_highlight" /\ ConsumeCommand
    \/ BackgroundTick

\* C24: with auto_scroll_enabled false, no step of an audio-driven position
\* advance changes scroll_offset or target_scroll_offset or starts a scroll
\* animation; the sync scrolls only when auto-scroll is enabled
C24_NoScrollWithoutAutoScroll ==
    [][ (~auto_scroll_enabled /\ AudioDrivenAdvance) =>
            /\ scroll_offset' = scroll_offset
            /\ target_scroll_offset' = target_scroll_offset
            /\ smooth_scroll_task' = smooth_scroll_task ]_vars

\* C24, its case: with auto-scroll off the audio has advanced to a sentence
\* outside the viewport, the sync has moved the display position there, and
\* the viewport has stayed where it was
C24_HighlightLeftViewport ==
    /\ ~auto_scroll_enabled
    /\ running
    /\ ~is_paused
    /\ display_position = audio_position
    /\ display_position \in DOMAIN position_to_line
    /\ ~is_position_visible(CurrentLayout, scroll_offset, display_position)
    /\ scroll_offset = target_scroll_offset
    /\ ~TaskActive(smooth_scroll_task)

-----------------------------------------------------------------------------
(* Properties of the scroll animation *)

\* the _animate_scroll tasks that are alive: the referenced one, if it is
\* not done, and the unreferenced ones
ActiveAnimations ==
    orphaned_animations + (IF TaskActive(smooth_scroll_task) THEN 1 ELSE 0)

\* a smooth scroll is started in this step: smooth_scroll_task becomes a
\* task that has not run yet
SmoothScrollStarts ==
    /\ smooth_scroll_task'.state = "created"
    /\ smooth_scroll_task.state # "created"

\* C25: at most one scroll-animation task is alive at any time; when a
\* smooth scroll starts, the new task is the only one alive (the animation
\* in flight has been cancelled); and no pass of the animation, hence no
\* change of scroll_offset by it, happens for a task that is cancelled or
\* done
C25_OneScrollAnimation ==
    /\ [](ActiveAnimations <= 1)
    /\ [][SmoothScrollStarts => ActiveAnimations' = 1]_vars
    /\ [][~TaskActive(smooth_scroll_task) => ~AnimateScroll]_vars

\* C25, its case: a smooth scroll has been started while an animation was
\* in flight (scroll_offset is between two lines, where only a pass of the
\* animation leaves it) and the new task has not run yet
C25_RestartedInFlight ==
    /\ smooth_scroll_task.state = "created"
    /\ scroll_offset % Scale # 0
    /\ scroll_offset # target_scroll_offset

\* a pass of _animate_scroll ends the task in this step: the animation
\* completes, it is not cancelled
AnimationCompletes ==
    /\ AnimateScroll
    /\ smooth_scroll_task'.state = "done"

\* C26: a scroll animation makes at most 80 passes of its loop, and when it
\* completes without being cancelled scroll_offset equals
\* target_scroll_offset
C26_AnimationEndsAtTarget ==
    /\ [](smooth_scroll_task.steps <= 80)
    /\ [][AnimationCompletes => scroll_offset' = target_scroll_offset']_vars

-----------------------------------------------------------------------------
(* Properties of the navigation scroll *)

\* pos is at or before q in document order
AtOrBefore(pos, q) ==
    \/ pos[1] < q[1]
    \/ pos[1] = q[1] /\ pos[2] < q[2]
    \/ pos[1] = q[1] /\ pos[2] = q[2] /\ pos[3] <= q[3]

\* the anchor line of pos: its entry in position_to_line, or else the entry
\* of the nearest prior sentence that has one
AnchorLine(pos) ==
    LET prior == { q \in DOMAIN position_to_line : AtOrBefore(q, pos) }
        nearest == CHOOSE q \in prior : \A r \in prior : AtOrBefore(r, q)
    IN  position_to_line[nearest]

\* clamp(anchor_line(pos) - viewport_height div 2, 0, max_scroll), in units
CentredOffset(pos) ==
    Units(Max(0, Min(AnchorLine(pos) - (AvailableHeight \div 2), MaxScrollLines)))

\* C27: a navigation command that finds a new position sets scroll_offset
\* and target_scroll_offset, in its own step and without starting an
\* animation, to clamp(anchor_line(new_position) - viewport_height div 2, 0,
\* max_scroll)
C27_NavigationCentresAtOnce ==
    [][ \A cmd \in NavCommands :
            (/\ ActionNavigate(cmd)
             /\ NavigationTarget(audio_position, cmd) # None)
            => /\ audio_position' = NavigationTarget(audio_position, cmd)
               /\ scroll_offset' = CentredOffset(audio_position')
               /\ target_scroll_offset' = CentredOffset(audio_position')
               /\ smooth_scroll_task' = smooth_scroll_task ]_vars

\* C29: a scroll-to requested by a navigation command for a position that
\* has no entry in position_to_line scrolls the viewport to the nearest
\* prior sentence that has an anchor, centred as for any other position;
\* the command completes (the request is not a fatal error)
C29_MissingAnchorFallsBack ==
    [][ \A cmd \in NavCommands :
            LET new_pos == NavigationTarget(audio_position, cmd)
            IN  (/\ ActionNavigate(cmd)
                 /\ new_pos # None
                 /\ new_pos \notin DOMAIN position_to_line)
                => /\ display_position' = new_pos
                   /\ scroll_offset' = CentredOffset(new_pos)
                   /\ target_scroll_offset' = scroll_offset' ]_vars

-----------------------------------------------------------------------------
(* Properties of the paragraph mode *)

\* the paragraphs of the document and their order
Paragraphs ==
    UNION { { <<c, p>> : p \in 0..(NumParagraphs(c) - 1) } : c \in 0..(NumChapters - 1) }

ParagraphBefore(a, b) == a[1] < b[1] \/ (a[1] = b[1] /\ a[2] < b[2])

\* C28: in paragraph mode the result does not depend on the sentence index
\* of the input: advance, when a later paragraph exists, returns sentence 0
\* of the next paragraph in document order (the first paragraph of the next
\* chapter at a chapter's end), and rewind, when an earlier paragraph exists,
\* returns sentence 0 of the previous one (the last paragraph of the
\* previous chapter at a chapter's start)
C28_ParagraphModeSkipsParagraphs ==
    (fn_in.op \in {"advance", "rewind"} /\ fn_in.mode = "paragraph") =>
        LET here == <<fn_in.pos[1], fn_in.pos[2]>>
            later == { q \in Paragraphs : ParagraphBefore(here, q) }
            earlier == { q \in Paragraphs : ParagraphBefore(q, here) }
            next == CHOOSE q \in later : \A r \in later \ {q} : ParagraphBefore(q, r)
            prev == CHOOSE q \in earlier : \A r \in earlier \ {q} : ParagraphBefore(r, q)
        IN  /\ (fn_in.op = "advance" /\ later # {})
                => fn_out = <<next[1], next[2], 0>>
            /\ (fn_in.op = "rewind" /\ earlier # {})
                => fn_out = <<prev[1], prev[2], 0>>

\* C28, its case: a paragraph-mode advance from a later sentence of the
\* last paragraph of chapter 0 has returned the first sentence of chapter 1
C28_AdvanceIntoNextChapter ==
    /\ fn_in.op = "advance"
    /\ fn_in.mode = "paragraph"
    /\ fn_in.pos[1] = 0
    /\ fn_in.pos[2] = NumParagraphs(0) - 1
    /\ fn_in.pos[3] > 0
    /\ fn_out = <<1, 0, 0>>

-----------------------------------------------------------------------------
(* Properties of the line grid *)

\* b is the paragraph that follows a in document order
ParagraphSuccessor(a, b) ==
    /\ ParagraphBefore(a, b)
    /\ ~\E q \in Paragraphs : ParagraphBefore(a, q) /\ ParagraphBefore(q, b)

\* C30: the line grid holds the wrapped lines of every paragraph, in
\* document order, with exactly one blank line between two consecutive
\* paragraphs of a chapter and exactly two blank lines between the last
\* paragraph of a chapter and the first paragraph of the next chapter
C30_BlankLinesBetweenParagraphs ==
    /\ \A a \in Paragraphs :
           \A l \in paragraph_line_ranges[a][1]..paragraph_line_ranges[a][2] :
               document_lines[l + 1] = <<a[1], a[2], l - paragraph_line_ranges[a][1]>>
    /\ \A a \in Paragraphs, b \in Paragraphs :
           ParagraphSuccessor(a, b) =>
               LET last == paragraph_line_ranges[a][2]
                   first == paragraph_line_ranges[b][1]
               IN  /\ first - last - 1 = IF a[1] = b[1] THEN 1 ELSE 2
                   /\ \A l \in (last + 1)..(first - 1) :
                          document_lines[l + 1] = BlankLine

-----------------------------------------------------------------------------
(* Properties of hit-testing *)

\* The spans <<start, end>> of the wrapped lines in the text of a paragraph:
\* the offset of the first character of the line and the offset after the
\* last character of its last word
RECURSIVE LineSpans(_, _, _, _, _)
LineSpans(words, width, cell_offset, char_pos, spans) ==
    IF words = << >> THEN spans
    ELSE IF width - cell_offset >= Head(words)
         THEN LineSpans(Tail(words), width, cell_offset + Head(words) + 1,
                        char_pos + Head(words) + 1,
                        [spans EXCEPT ![Len(spans)][2] = char_pos + Head(words)])
         ELSE LineSpans(Tail(words), width, Head(words) + 1,
                        char_pos + Head(words) + 1,
                        Append(spans, <<char_pos, char_pos + Head(words)>>))

\* The click row click_y falls on a line of text of the grid
OnTextLine(click_y) ==
    /\ 0 <= click_y - 3 /\ click_y - 3 < AvailableHeight
    /\ IntPart(scroll_offset) + click_y - 3 < TotalLines
    /\ IntPart(scroll_offset) + click_y - 3 \in DOMAIN line_to_position

\* The position a click on a text line stands for: the paragraph of the
\* line, and the sentence whose characters (with the blank that ends it)
\* hold the clicked character, sentence 0 when the click is on no sentence
ClickedPosition(click_x, click_y) ==
    LET line == IntPart(scroll_offset) + click_y - 3
        chap_idx == line_to_position[line][1]
        para_idx == line_to_position[line][2]
        paragraph == chapters[chap_idx + 1][para_idx + 1]
        sentences == split_into_sentences(paragraph)
        spans == LineSpans(Flatten(paragraph), AvailableWidth, 0, 0, << <<0, 0>> >>)
        span == spans[line - paragraph_line_ranges[<<chap_idx, para_idx>>][1] + 1]
        char == span[1] + click_x - 5
        hits == { k \in 0..(Len(sentences) - 1) :
                    /\ SentenceStart(sentences, k) <= char
                    /\ char <= SentenceStart(sentences, k) + SentenceLen(sentences[k + 1]) }
    IN  IF click_x - 5 >= 0 /\ char < span[2] /\ hits # {}
        THEN <<chap_idx, para_idx, CHOOSE k \in hits : \A j \in hits : k <= j>>
        ELSE <<chap_idx, para_idx, 0>>

\* The command loop takes a click out of the command slot
ClickConsumed == command.name = "click_jump" /\ command' = NoCommand

\* C31: a click on a line of text moves the reader to the paragraph of
\* line_to_position[floor(offset) + y] and to the sentence whose characters
\* hold the clicked character, sentence 0 of the paragraph when no sentence
\* does; a click outside the viewport, past the last line or on a separator
\* line changes neither the position nor the scroll state nor the modes
C31_ClickFindsSentence ==
    [][ClickConsumed =>
          IF OnTextLine(command.data[2])
          THEN /\ audio_position' = ClickedPosition(command.data[1], command.data[2])
               /\ display_position' = audio_position'
          ELSE UNCHANGED << posVars, scrollVars, modeVars >>]_vars

-----------------------------------------------------------------------------
(* Properties of the paused reader *)

\* A highlight-advance event of the audio engine: the report of the next
\* sentence, or the command loop taking that report out of the slot
HighlightEvent ==
    \/ HighlightAdvance
    \/ ConsumeCommand /\ command.name = "_update_highlight"

\* A command of the user that sets the position
PositionCommand ==
    \/ \E cmd \in NavCommands : ActionNavigate(cmd)
    \/ ActionMoveToTopVisible
    \/ \E chapter_idx \in 0..(NumChapters - 1) : SelectChapter(chapter_idx)
    \/ ConsumeCommand /\ command.name = "click_jump"

\* C32: while is_paused is true a highlight-advance event of the audio
\* engine changes neither audio_position nor display_position, and every
\* step that changes one of them is a command of the user
C32_PausedIgnoresHighlight ==
    [][is_paused =>
          /\ HighlightEvent => UNCHANGED posVars
          /\ posVars' # posVars => PositionCommand]_vars

\* The engine plays a sentence after the one the paused reader shows, and
\* its report waits in the command slot
C32_AdvanceWhilePaused ==
    /\ is_paused
    /\ audio_playing
    /\ command.name = "_update_highlight"
    /\ command.data = play_position
    /\ audio_position # play_position

-----------------------------------------------------------------------------
(* Properties of the manual viewport commands *)

\* One of the four manual scroll commands
ManualScrollCommand ==
    \/ ActionScrollUp
    \/ ActionScrollDown
    \/ ActionScrollPageUp
    \/ ActionScrollPageDown

\* C33: scroll-up, scroll-down, page-up and page-down change only the
\* viewport: in every state, also when the audio position is ahead of the
\* display position, they leave audio_position and display_position unchanged
C33_ManualScrollKeepsPositions ==
    [][ManualScrollCommand => UNCHANGED posVars]_vars

\* C34: in every reachable state with is_paused true, display_position
\* equals audio_position: the highlighted sentence is the sentence from which
\* playback would resume
C34_PausedPositionsAgree ==
    is_paused => display_position = audio_position

\* One of the six manual viewport commands
ManualViewportCommand ==
    \/ ManualScrollCommand
    \/ ActionMoveToBeginning
    \/ ActionMoveToEnd

\* Auto-scroll is off and no scroll animation is in flight
ViewportHeld == ~auto_scroll_enabled /\ ~TaskActive(smooth_scroll_task)

\* A step of the engine: an animation tick, a pass of the background sync,
\* the audio moving on, or the command loop taking its report
EngineStep ==
    \/ AnimateScroll
    \/ BackgroundTick
    \/ HighlightAdvance
    \/ ConsumeCommand /\ command.name = "_update_highlight"

\* C35: every manual viewport command leaves auto_scroll_enabled false and
\* no scroll animation in flight, and from then on no animation tick and no
\* audio-driven advance changes the offset and the target the command set
C35_ManualCommandHoldsViewport ==
    /\ [][ManualViewportCommand => ViewportHeld']_vars
    /\ [][ViewportHeld /\ EngineStep =>
            /\ ViewportHeld'
            /\ UNCHANGED << scroll_offset, target_scroll_offset >>]_vars

\* A manual scroll has interrupted an animation between two lines, and the
\* display has since followed the audio to a later sentence
C35_InterruptedAnimation ==
    /\ ~auto_scroll_enabled
    /\ smooth_scroll_task.state = "done"
    /\ scroll_offset % Scale # 0
    /\ scroll_offset = target_scroll_offset
    /\ display_position # <<0, 0, 0>>
    /\ display_position = play_position

\* A navigation command that finds a position with an anchor
AnchoredNavigation ==
    \E cmd \in NavCommands :
        /\ ActionNavigate(cmd)
        /\ NavigationTarget(audio_position, cmd) \in DOMAIN position_to_line

\* An operation that sets the scroll offset or its target by itself
ScrollOperation ==
    \/ \E cmd \in NavCommands : ActionNavigate(cmd)
    \/ ManualViewportCommand
    \/ BackgroundTick

\* C36: a navigation command that executes while a scroll animation is in
\* flight and finds a position with an anchor sets scroll_offset and its
\* target to the immediate-jump value, and the animation then makes no
\* change: scroll_offset stays there until the next scroll operation
C36_NavigationStopsAnimation ==
    /\ [][AnchoredNavigation /\ TaskActive(smooth_scroll_task) =>
            /\ scroll_offset' = CentredOffset(audio_position')
            /\ target_scroll_offset' = scroll_offset']_vars
    /\ [][(/\ TaskActive(smooth_scroll_task)
           /\ scroll_offset = target_scroll_offset
           /\ ~ScrollOperation)
          => UNCHANGED << scroll_offset, target_scroll_offset >>]_vars

\* A navigation forward has moved the reader past the sentence the engine
\* plays while an animation was in flight, and the animation is still alive
C36_NavigatedDuringAnimation ==
    /\ TaskActive(smooth_scroll_task)
    /\ scroll_offset = target_scroll_offset
    /\ scroll_offset > 0
    /\ play_position # None
    /\ audio_position # play_position
    /\ AtOrBefore(play_position, audio_position)
    /\ display_position = audio_position
    /\ audio_position \in DOMAIN position_to_line

\* the sentences of paragraph a that have an anchor
AnchoredSentences(a) ==
    { k \in 0..(NumSentences(a[1], a[2]) - 1) : <<a[1], a[2], k>> \in DOMAIN position_to_line }

\* C37: in every paragraph with at least one wrapped line, sentence 0 is
\* anchored at the start line of the paragraph, every anchored sentence lies
\* in the line range of its paragraph and the anchor lines do not decrease
\* with the sentence index; the line ranges of distinct paragraphs are
\* disjoint and increase in document order; a separator line has no entry in
\* line_to_position
C37_AnchorsInsideParagraphs ==
    /\ \A a \in Paragraphs :
           LET first == paragraph_line_ranges[a][1]
               last == paragraph_line_ranges[a][2]
           IN  first <= last =>
                   /\ 0 \in AnchoredSentences(a)
                   /\ position_to_line[<<a[1], a[2], 0>>] = first
                   /\ \A k \in AnchoredSentences(a) :
                          /\ first <= position_to_line[<<a[1], a[2], k>>]
                          /\ position_to_line[<<a[1], a[2], k>>] <= last
                   /\ \A j \in AnchoredSentences(a), k \in AnchoredSentences(a) :
                          j < k => position_to_line[<<a[1], a[2], j>>]
                                      <= position_to_line[<<a[1], a[2], k>>]
    /\ \A a \in Paragraphs, b \in Paragraphs :
           ParagraphBefore(a, b) =>
               paragraph_line_ranges[a][2] < paragraph_line_ranges[b][1]
    /\ \A l \in 0..(TotalLines - 1) :
           document_lines[l + 1] = BlankLine => l \notin DOMAIN line_to_position

\* A rebuilt grid of two paragraphs separated by a blank line, the first of
\* several lines with sentences anchored on different lines
C37_AnchorsOnSeveralLines ==
    /\ services_pc # "start"
    /\ \E a \in Paragraphs, b \in Paragraphs :
           /\ ParagraphBefore(a, b)
           /\ \E j \in AnchoredSentences(a), k \in AnchoredSentences(a) :
                  position_to_line[<<a[1], a[2], j>>] < position_to_line[<<a[1], a[2], k>>]
           /\ document_lines[paragraph_line_ranges[a][2] + 2] = BlankLine

-----------------------------------------------------------------------------
(* Properties of the chapter jump *)

\* C38: jump_to_chapter(i) with 0 <= i < #chapters sets audio_position and
\* display_position to (i,0,0); with i out of range it leaves the positions,
\* the scroll offset and every other variable of the reader unchanged
C38_ChapterJumpChecksRange ==
    [][\A i \in JumpIndexes :
          JumpToChapter(i) =>
              IF 0 <= i /\ i < NumChapters
              THEN /\ audio_position' = <<i, 0, 0>>
                   /\ display_position' = <<i, 0, 0>>
              ELSE UNCHANGED vars]_vars

\* The reader after a jump to a later chapter: both positions at its first
\* sentence and the first line of the chapter at the top of the viewport
C38_JumpedToLaterChapter ==
    /\ audio_position[1] > 0
    /\ audio_position = <<audio_position[1], 0, 0>>
    /\ display_position = audio_position
    /\ scroll_offset = Units(position_to_line[audio_position])
    /\ scroll_offset # CentredOffset(audio_position)

-----------------------------------------------------------------------------
(* Properties of the restored progress *)

\* C39: immediately after load with a restored progress record (saved
\* scroll_offset and manual scroll anchor), scroll_offset lies between 0 and
\* max(0, total_lines - viewport_height) and target_scroll_offset equals it
C39_RestoredOffsetInBounds ==
    [][Reload =>
          /\ 0 <= scroll_offset'
          /\ scroll_offset' <= Units(MaxScrollLines')
          /\ target_scroll_offset' = scroll_offset']_vars

====
